---- MODULE Spec2Model ----
(***************************************************************************)
(* Unmonitarr: the webhook event pipeline (src/src/webhook_handler.py) and *)
(* the HTTP entry points that feed it (src/src/main.py).                   *)
(*                                                                         *)
(* Every request the service accepts occupies one slot of `tasks`.  A slot *)
(* walks through the await points of WebhookHandler.process_webhook; the   *)
(* event loop interleaves the slots between those points.  The durable     *)
(* store (media_items, *_mappings, sync_logs) is modelled by its committed *)
(* contents; a session's uncommitted insert of a media record is the       *)
(* task-local flag `created`.  Answers of the collaborators (Jellyfin,     *)
(* Sonarr/Radarr, the resolver's lookups) are chosen nondeterministically  *)
(* at the step that awaits them.                                           *)
(***************************************************************************)
EXTENDS Naturals, Integers, Sequences, FiniteSets, TLC

\* Number of requests (webhook deliveries and retry requests) in a run.
MaxTasks == 2

Tasks == 1..MaxTasks

\* Jellyfin item ids of the library, and the Jellyfin type of each.
Items == {"i1", "i2"}
JellyfinType(i) == IF i = "i1" THEN "Episode" ELSE "Movie"

\* Python's None, the empty dict, and truthiness of a str-or-None value.
None == "None"
EmptyDict == << >>
Truthy(v) == v # None /\ v # ""
Has(d, k) == k \in DOMAIN d
Get(d, k) == IF Has(d, k) THEN d[k] ELSE None
\* a or b (on str-or-None values)
Or(a, b) == IF Truthy(a) THEN a ELSE b

(***************************************************************************)
(* Inbound payloads.  A payload is a dict (a function from keys to         *)
(* values).  The str-valued keys are StrKeys; "Played" is a bool,          *)
(* "template" a dict, "events" a list.                                     *)
(***************************************************************************)
StrKeys == {"NotificationType", "Event", "Type", "event_type", "ItemId", "Id",
            "UserId", "user_id", "SaveReason", "ItemType", "Name"}

SendAll(i, w, reason) ==
    [NotificationType |-> "UserDataSaved", ItemId |-> i, UserId |-> "u1",
     Played |-> w, SaveReason |-> reason, ItemType |-> JellyfinType(i)]

Payloads ==
    \* "Send All" deliveries of a genuine toggle
    { SendAll(i, w, "TogglePlayed") : i \in Items, w \in BOOLEAN }
    \cup
    { SendAll("i1", TRUE, "PlaybackFinished"),
      \* progress heartbeat
      SendAll("i1", TRUE, "PlaybackProgress"),
      \* integration probe
      [NotificationType |-> "Generic", ItemId |-> "i1", UserId |-> "u1"],
      \* missing item id / user id
      [NotificationType |-> "UserDataSaved", UserId |-> "u1",
       Played |-> TRUE, SaveReason |-> "TogglePlayed"],
      [NotificationType |-> "UserDataSaved", ItemId |-> "i1",
       Played |-> TRUE, SaveReason |-> "TogglePlayed"],
      \* legacy templated deliveries
      [template |-> [Type |-> "UserDataSaved", ItemId |-> "i2", UserId |-> "u1"]],
      [events |-> {"UserDataSaved"}, Id |-> "i2", user_id |-> "u1",
       SaveReason |-> "PlaybackProgress"],
      [Type |-> "PlaybackStart", ItemId |-> "i2", UserId |-> "u1"],
      [Type |-> "UserDataSaved", ItemId |-> "", UserId |-> "u1", Name |-> "x"],
      \* template substitution failed: every field an empty string
      [Type |-> "", ItemId |-> "", UserId |-> ""] }

\* main.py: all(v == "" for v in payload.values() if isinstance(v, str))
AllEmptyStrings(p) == \A k \in (DOMAIN p) \cap StrKeys : p[k] = ""

\* WebhookHandler._is_processed_webhook_data
is_processed_webhook_data(p) ==
    {"jellyfin_id", "user_id", "event_type", "is_watched"} \subseteq DOMAIN p

\* Faulty variant of _extract_send_all_format: the SaveReason test is missing.
extract_send_all_format_any_reason(p) ==
    LET event_type  == Get(p, "NotificationType")
        item_id     == Get(p, "ItemId")
        user_id     == Get(p, "UserId")
        is_played   == IF Has(p, "Played") THEN p["Played"] ELSE FALSE
    IN  IF event_type # "UserDataSaved" THEN EmptyDict
        ELSE IF ~Truthy(item_id) \/ ~Truthy(user_id) THEN EmptyDict
        ELSE [event_type |-> event_type, jellyfin_id |-> item_id,
              user_id |-> user_id, is_watched |-> is_played,
              item_type |-> Get(p, "ItemType")]

\* WebhookHandler._extract_send_all_format; EmptyDict stands for None.
extract_send_all_format(p) ==
    LET event_type  == Get(p, "NotificationType")
        item_id     == Get(p, "ItemId")
        user_id     == Get(p, "UserId")
        is_played   == IF Has(p, "Played") THEN p["Played"] ELSE FALSE
        save_reason == Get(p, "SaveReason")
    IN  IF event_type # "UserDataSaved" THEN EmptyDict
        ELSE IF ~Truthy(item_id) \/ ~Truthy(user_id) THEN EmptyDict
        ELSE IF save_reason \notin {"TogglePlayed", "PlaybackFinished"} THEN EmptyDict
        ELSE [event_type |-> event_type, jellyfin_id |-> item_id,
              user_id |-> user_id, is_watched |-> is_played,
              item_type |-> Get(p, "ItemType")]

\* WebhookHandler._extract_webhook_data; EmptyDict stands for None.
extract_webhook_data(p) ==
    IF Has(p, "NotificationType") \/ Has(p, "Event")
    THEN extract_send_all_format(p)
    ELSE
    LET template   == IF Has(p, "template") THEN p["template"] ELSE EmptyDict
        event_type == Or(Get(template, "Type"), Or(Get(p, "Type"),
                         Or(Get(p, "event_type"), Get(p, "NotificationType"))))
        events     == IF Has(p, "events") THEN p["events"] ELSE {}
        item_id    == Or(Get(template, "ItemId"), Or(Get(p, "ItemId"),
                         Or(Get(p, "Id"),
                            Get(IF Has(p, "Item") THEN p["Item"] ELSE EmptyDict, "Id"))))
        user_id    == Or(Get(template, "UserId"), Or(Get(p, "UserId"),
                         Or(Get(p, "user_id"),
                            Get(IF Has(p, "User") THEN p["User"] ELSE EmptyDict, "Id"))))
    IN  IF event_type # "UserDataSaved" /\ "UserDataSaved" \notin events
        THEN EmptyDict
        ELSE IF ~Truthy(item_id) \/ ~Truthy(user_id) THEN EmptyDict
        ELSE [event_type |-> "UserDataSaved", jellyfin_id |-> item_id,
              user_id |-> user_id]

\* process_webhook: pre-processed data is used as it is, a raw payload is extracted.
webhook_data_of(payload) ==
    IF is_processed_webhook_data(payload) THEN payload
    ELSE extract_webhook_data(payload)

\* WebhookHandler._is_watched_status_change
is_watched_status_change(wd) == Get(wd, "event_type") = "UserDataSaved"

\* The dedup key f"{jellyfin_id}_{user_id}_{is_watched}" built in process_webhook.
cache_key(wd) ==
    << wd["jellyfin_id"], wd["user_id"],
       IF Has(wd, "is_watched")
       THEN (IF wd["is_watched"] THEN "True" ELSE "False")
       ELSE "unknown" >>

\* Faulty variant: the negation is missing.
should_monitor_same(is_watched) == is_watched
\* should_monitor = not is_watched
should_monitor_of(is_watched) == ~is_watched

\* Faulty variants: the skip is missing; the skip ignores force_sync.
skip_sync_never(old_status, is_watched, force_sync) == FALSE
skip_sync_ignoring_force(old_status, is_watched, force_sync) == old_status = is_watched
\* if old_status == is_watched and not force_sync: ... return
skip_sync(old_status, is_watched, force_sync) == old_status = is_watched /\ ~force_sync

\* Faulty variant: the early return on a miss is missing.
resolution_missed_never(entity) == FALSE
\* if not series: ... return / if not movie: ... return
resolution_missed(entity) == entity = None

\* Faulty variant: the outcome of the call is not looked at.
final_status_completed(success) == "completed"
\* SyncStatus.COMPLETED if success else SyncStatus.FAILED
final_status(success) == IF success THEN "completed" ELSE "failed"
\* if not success: sync_log.error_message = "Failed to update monitoring status"
final_error_message(success, previous) ==
    IF success THEN previous ELSE "Failed to update monitoring status"

\* Faulty variant: the 400 answer for a completed log is missing.
retry_allowed_any_completed(status, force) == status # "processing"
\* retry_sync_action: neither the 400 (completed, not forced) nor the 409 (processing)
retry_allowed(status, force) ==
    ~(status = "completed" /\ ~force) /\ status # "processing"

\* SyncAction.MONITOR if should_monitor else SyncAction.UNMONITOR
sync_action(should_monitor) == IF should_monitor THEN "monitor" ELSE "unmonitor"

\* service_name in _process_watched_status_change / _sync_with_service
service_name(media_type) ==
    IF media_type \in {"episode", "series", "season"} THEN "Sonarr" ELSE "Radarr"

\* WebhookHandler._normalize_media_type
normalize_media_type(jellyfin_type) ==
    IF jellyfin_type \in {"Episode", "episode"} THEN "episode"
    ELSE IF jellyfin_type \in {"Movie", "movie"} THEN "movie"
    ELSE IF jellyfin_type \in {"Series", "series"} THEN "series"
    ELSE IF jellyfin_type \in {"Season", "season"} THEN "season"
    ELSE "episode"

VARIABLES
    tasks,      \* request slot -> the request and its pipeline's position and locals
    cache,      \* WebhookHandler._processing_cache: the set of its keys
    media,      \* media_items: item -> [exists, watched, media_type]
    mapping,    \* sonarr_mappings / radarr_mappings: item -> [exists, episode_id, is_monitored]
    logs,       \* sync_logs, by id
    monitored   \* the target service's monitored flag of the item's entity

VARIABLES
    bulk_sync_status,   \* main.py's global bulk_sync_status
    bulk_runs           \* bulk-sync request slot -> the request and its run's position

\* History: per item, the last event that passed the dedup gate.
VARIABLES last_gate

\* The body of the last answer of POST /api/logs/retry/bulk.
VARIABLES retry_response

VARIABLES
    executor,                   \* one record's _sync_with_service calls, one after the other
    remote,                     \* the monitored flags kept by Sonarr and Radarr
    ignore_special_episodes     \* settings.ignore_special_episodes

VARIABLES
    library,    \* the entities the service lists (get_all_series / get_all_movies)
    query,      \* the arguments of a find_..._by_jellyfin_metadata call
    found,      \* what the call returned and which tiers it used
    calls,      \* the calls _find_sonarr_series / _find_radarr_movie made, in order
    handler     \* where that function stands, and the metadata it holds

VARIABLES
    webhook_token,  \* app_config._webhook_token
    configuration,  \* the value of the configuration row "webhook_token"
    issued,         \* how many tokens have been generated
    revoked,        \* history: the tokens a rotation has replaced
    endpoint        \* the webhook request answered since the token was last set, and its answer

\* A title and what successive _clean_title calls made of it.
VARIABLES normalizer

pipeline_vars == << tasks, cache, media, mapping, logs, monitored, last_gate, retry_response >>
bulk_vars == << bulk_sync_status, bulk_runs >>
executor_vars == << executor, remote, ignore_special_episodes >>
resolver_vars == << library, query, found, calls, handler >>
endpoint_vars == << webhook_token, configuration, issued, revoked, endpoint >>
\* What the dedup gate leaves alone besides the tables.
outside_gate == << bulk_vars, executor_vars, resolver_vars, endpoint_vars, normalizer, retry_response >>
\* What the webhook and retry handlers and the steps after the gate leave alone.
outside_pipeline == << outside_gate, last_gate >>
outside_bulk == << pipeline_vars, executor_vars, resolver_vars, endpoint_vars, normalizer >>
outside_executor == << pipeline_vars, bulk_vars, resolver_vars, endpoint_vars, normalizer >>
outside_resolver == << pipeline_vars, bulk_vars, executor_vars, endpoint_vars, normalizer >>
vars == << pipeline_vars, bulk_vars, executor_vars, resolver_vars, endpoint_vars, normalizer >>

IdleTask ==
    [pc |-> "idle", data |-> EmptyDict, force |-> FALSE, after |-> 0,
     is_watched |-> FALSE, old_status |-> FALSE, created |-> FALSE,
     entity |-> "unset", log |-> 0, success |-> FALSE, called |-> "none",
     retry_force |-> FALSE, outcome |-> ""]

\* Bulk-sync requests considered, and the longest Jellyfin listing.
MaxBulk == 2
MaxListing == 2
BulkRuns == 1..MaxBulk

\* bulk_sync_status as the module is loaded (start_time and current_item left out).
InitialStatus ==
    [is_running |-> FALSE, processed_count |-> 0, total_count |-> 0,
     synced_count |-> 0, errors |-> << >>, completed |-> FALSE,
     success |-> FALSE, sync_type |-> "all"]

\* sync_failures counts the items of the run whose pipeline ended in a failed sync.
IdleRun == [pc |-> "idle", sync_type |-> "", todo |-> 0, sync_failures |-> 0]

BulkInit ==
    /\ bulk_sync_status = InitialStatus
    /\ bulk_runs = [r \in BulkRuns |-> IdleRun]

\* The series the executor is run against: seasons 0..MaxSeason of MaxEpisode
\* episodes each, with Sonarr's episode ids in list order.
MaxSeason == 1
MaxEpisode == 2
Seasons == 0..MaxSeason
EpisodeIds == 1..((MaxSeason + 1) * MaxEpisode)
seasonNumber(e) == (e - 1) \div MaxEpisode
episodeNumber(e) == ((e - 1) % MaxEpisode) + 1
\* A nullable integer column or field holding None.
NoNumber == -1

NoMapping ==
    [exists |-> FALSE, episode_id |-> NoNumber, season_number |-> NoNumber,
     is_monitored |-> TRUE]

IdleExecutor ==
    [pc |-> "idle", media_type |-> "", season_number |-> NoNumber,
     episode_number |-> NoNumber, should_monitor |-> FALSE, mapping |-> NoMapping,
     log |-> "none", method |-> "none", success |-> FALSE, requests |-> << >>,
     bulk_ids |-> {}, raised |-> FALSE, updates |-> << >>]

AllMonitored == [episodes |-> [e \in EpisodeIds |-> TRUE], series |-> TRUE, movie |-> TRUE]

ExecutorIdle ==
    /\ executor = IdleExecutor
    /\ remote = AllMonitored
    /\ ignore_special_episodes = TRUE

\* No call of a resolver made: an empty library, no arguments, no answer.
NotCalled == [service |-> "none", entity |-> 0, title_searched |-> FALSE,
              looked_up |-> FALSE]

ResolverIdle ==
    /\ library = << >>
    /\ query = EmptyDict
    /\ found = NotCalled
    /\ calls = << >>
    /\ handler = [pc |-> "idle"]

\* No token loaded, no webhook request answered.
NoToken == 0
NoRequest ==
    [authorization |-> NoToken, content_type |-> "", body |-> EmptyDict,
     status_code |-> 0, status |-> "", queued |-> FALSE]

EndpointIdle ==
    /\ webhook_token = NoToken
    /\ configuration = NoToken
    /\ issued = 0
    /\ revoked = {}
    /\ endpoint = NoRequest

\* No title handed to _clean_title.
NotNormalized == [title |-> << >>, results |-> << >>]

NoResponse == [status |-> "none", retried_count |-> 0, errors |-> << >>]

PipelineInit ==
    /\ retry_response = NoResponse
    /\ tasks = [t \in Tasks |-> IdleTask]
    /\ cache = {}
    /\ media = [i \in Items |-> [exists |-> FALSE, watched |-> FALSE, media_type |-> "",
                                  rows |-> 0]]
    /\ mapping = [i \in Items |-> [exists |-> FALSE, episode_id |-> FALSE,
                                    is_monitored |-> TRUE, rows |-> 0]]
    /\ logs = << >>
    /\ monitored = [i \in Items |-> TRUE]
    /\ last_gate = [i \in Items |-> [watched |-> "none", with_opposite |-> FALSE]]

Init ==
    /\ PipelineInit
    /\ BulkInit
    /\ EndpointIdle
    /\ normalizer = NotNormalized
    /\ ExecutorIdle
    /\ ResolverIdle

Free == {t \in Tasks : tasks[t].pc = "idle"}
NextFree == CHOOSE t \in Free : \A u \in Free : t <= u

\* Faulty variant: the membership test is missing.
already_processing_never(key) == FALSE
\* if cache_key in self._processing_cache
already_processing(key) == key \in cache

\* Faulty variant: the key is not released.
pop_nothing(key) == cache
\* self._processing_cache.pop(cache_key, None)
pop(key) == cache \ {key}

\* Position helpers for the task in slot t.
\* Starlette awaits the tasks of one BackgroundTasks object in the order added.
BatchTurn(t) == IF tasks[t].after = 0 THEN TRUE ELSE tasks[tasks[t].after].pc = "done"
Item(t) == tasks[t].data["jellyfin_id"]
Key(t) == cache_key(tasks[t].data)
IsRetry(t) == Has(tasks[t].data, "retry_mode") /\ tasks[t].data["retry_mode"]
\* Faulty variant: the id of the prior record is not read.
OriginalLogId_missing(t) == 0
OriginalLogId(t) ==
    IF Has(tasks[t].data, "original_log_id") THEN tasks[t].data["original_log_id"] ELSE 0

\* media_type of the record a session is about to insert: the webhook's
\* normalized ItemType, or (templated delivery) Jellyfin's Type lower-cased.
new_media_type(wd) ==
    IF Has(wd, "is_watched")
    THEN normalize_media_type(Get(wd, "item_type"))
    ELSE (IF JellyfinType(wd["jellyfin_id"]) = "Episode" THEN "episode" ELSE "movie")

\* Faulty variant: an episode without episode id is synced as its series.
dispatch_series_instead(media_type, has_episode_id) ==
    IF service_name(media_type) = "Sonarr"
    THEN IF media_type = "episode" /\ has_episode_id THEN "update_episode_monitoring"
         ELSE IF media_type = "season" THEN "update_season_monitoring"
         ELSE "update_series_monitoring"
    ELSE "update_movie_monitoring"

\* The client method _sync_with_service dispatches to, "none" when no branch applies.
dispatch(media_type, has_episode_id) ==
    IF service_name(media_type) = "Sonarr"
    THEN IF media_type = "episode" /\ has_episode_id THEN "update_episode_monitoring"
         ELSE IF media_type = "season" THEN "update_season_monitoring"
         ELSE IF media_type = "series" THEN "update_series_monitoring"
         ELSE "none"
    ELSE "update_movie_monitoring"

\* process_webhook has returned: the frame is gone, the way it ended is kept.
Returned(how) == [IdleTask EXCEPT !.pc = "done", !.outcome = how]

\* The pipeline leaves the scoped block: the next step is the finally clause.
Leave(t, how) ==
    [tasks EXCEPT ![t].pc = "finally", ![t].outcome = how]

(***************************************************************************)
(* POST /webhook/jellyfin.  An all-empty template is acknowledged and      *)
(* dropped by the endpoint; anything else is queued as a background task.  *)
(***************************************************************************)
received(p) ==
    [tasks EXCEPT ![NextFree] =
        IF AllEmptyStrings(p)
        THEN Returned("ignored")
        ELSE [IdleTask EXCEPT !.pc = "queued", !.data = p]]

jellyfin_webhook(p) ==
    /\ Free # {}
    /\ tasks' = received(p)
    /\ UNCHANGED << cache, media, mapping, logs, monitored >>
    /\ UNCHANGED outside_pipeline

\* The event's watched flag as the payload states it ("unknown" for a template).
GateFlag(wd) ==
    IF Has(wd, "is_watched") THEN (IF wd["is_watched"] THEN "True" ELSE "False")
    ELSE "unknown"

\* The pipelines other than t's that are in flight for item i with a flag other than w.
Opposite(t, i, w) ==
    {u \in Tasks \ {t} :
        /\ tasks[u].pc \in {"sleep", "compare", "sync", "resolve", "log",
                             "remote", "finish", "finally"}
        /\ tasks[u].data["jellyfin_id"] = i
        /\ GateFlag(tasks[u].data) \notin {w, "unknown"}}

\* last_gate after t's gate step: updated when the event passed.
Passed(t, wd, passed) ==
    IF passed
    THEN [last_gate EXCEPT ![wd["jellyfin_id"]] =
            [watched |-> GateFlag(wd),
             with_opposite |-> /\ GateFlag(wd) # "unknown"
                               /\ Opposite(t, wd["jellyfin_id"], GateFlag(wd)) # {}]]
    ELSE last_gate

(***************************************************************************)
(* process_webhook from its entry to the dedup gate (no await in between). *)
(* The tasks of one BackgroundTasks batch run one after the other.         *)
(***************************************************************************)
gate(t) ==
    /\ tasks[t].pc = "queued"
    /\ BatchTurn(t)
    /\ LET webhook_data == webhook_data_of(tasks[t].data)
       IN  IF DOMAIN webhook_data = {}
           THEN /\ tasks' = [tasks EXCEPT ![t] = Returned("rejected")]
                /\ cache' = cache
           ELSE IF ~is_watched_status_change(webhook_data)
           THEN /\ tasks' = [tasks EXCEPT ![t] = Returned("not_a_change")]
                /\ cache' = cache
           ELSE IF already_processing(cache_key(webhook_data))
           THEN /\ tasks' = [tasks EXCEPT ![t] = Returned("dropped")]
                /\ cache' = cache
           ELSE /\ tasks' = [tasks EXCEPT ![t].pc = "sleep", ![t].data = webhook_data]
                /\ cache' = cache \cup {cache_key(webhook_data)}
    /\ UNCHANGED << media, mapping, logs, monitored >>
    /\ UNCHANGED outside_gate

process_webhook_gate(t) ==
    /\ gate(t)
    /\ UNCHANGED last_gate

\* The same step with the history of the gate kept.
process_webhook_gate_observed(t) ==
    /\ gate(t)
    /\ last_gate' = Passed(t, webhook_data_of(tasks[t].data), tasks'[t].pc = "sleep")

(***************************************************************************)
(* After the settle delay: _process_watched_status_change up to the        *)
(* comparison.  A templated event fetches the item from Jellyfin first.    *)
(* _get_or_create_media_item_from_jellyfin selects the record or adds a    *)
(* new one (is_watched=False) to the session.                              *)
(***************************************************************************)
\* Faulty variant: a new record starts with the event's flag.
initial_is_watched_of_event(is_watched) == is_watched
\* MediaItem(..., is_watched=False, ...) at lines 450-460
initial_is_watched(is_watched) == FALSE

\* Faulty variant: the table takes a second row with the same jellyfin_id.
jellyfin_id_taken_never(i) == FALSE
\* media_items.jellyfin_id and the mappings' media_item_id are unique columns:
\* an insert of a value a committed row holds fails.  `rows` counts the rows
\* the table holds for the item.
jellyfin_id_taken(i) == media[i].exists
media_item_id_taken(i) == mapping[i].exists

get_or_create_media_item(t) ==
    /\ tasks[t].pc = "sleep"
    /\ LET wd == tasks[t].data
           rec == media[wd["jellyfin_id"]]
       IN  \E jf \in (IF Has(wd, "is_watched") THEN {"webhook"}
                      ELSE {"absent", "True", "False"}) :
             IF jf = "absent"
             THEN tasks' = Leave(t, "no_item_data")
             ELSE tasks' = [tasks EXCEPT
                     ![t].pc = "compare",
                     ![t].is_watched = IF jf = "webhook" THEN wd["is_watched"]
                                       ELSE jf = "True",
                     ![t].old_status =
                        IF rec.exists THEN rec.watched
                        ELSE initial_is_watched(IF jf = "webhook" THEN wd["is_watched"]
                                                ELSE jf = "True"),
                     ![t].created = ~rec.exists]
    /\ UNCHANGED << cache, media, mapping, logs, monitored >>
    /\ UNCHANGED outside_pipeline

(***************************************************************************)
(* The status comparison and the commit of the new flag (lines 356-372).   *)
(* A session that added a record another session has inserted meanwhile    *)
(* violates the unique jellyfin_id and is rolled back.                     *)
(***************************************************************************)
\* Faulty variant: the new flag is not stored before the sync starts.
status_comparison_flag_not_stored(t) ==
    /\ tasks[t].pc = "compare"
    /\ LET i == Item(t)
           is_watched == tasks[t].is_watched
           inserted == [exists |-> TRUE, watched |-> initial_is_watched(is_watched),
                        media_type |-> new_media_type(tasks[t].data),
                        rows |-> media[i].rows + 1]
           row == IF tasks[t].created THEN inserted ELSE media[i]
       IN  IF tasks[t].created /\ jellyfin_id_taken(i)
           THEN /\ tasks' = Leave(t, "store_error")
                /\ media' = media
           ELSE IF skip_sync(tasks[t].old_status, is_watched, tasks[t].force)
           THEN /\ tasks' = Leave(t, "unchanged")
                /\ media' = [media EXCEPT ![i] = row]
           ELSE /\ tasks' = [tasks EXCEPT ![t].pc = "sync"]
                /\ media' = [media EXCEPT ![i] = row]
    /\ UNCHANGED << cache, mapping, logs, monitored >>
    /\ UNCHANGED outside_pipeline

status_comparison(t) ==
    /\ tasks[t].pc = "compare"
    /\ LET i == Item(t)
           is_watched == tasks[t].is_watched
           inserted == [exists |-> TRUE, watched |-> initial_is_watched(is_watched),
                        media_type |-> new_media_type(tasks[t].data),
                        rows |-> media[i].rows + 1]
           row == IF tasks[t].created THEN inserted ELSE media[i]
       IN  IF tasks[t].created /\ jellyfin_id_taken(i)
           THEN /\ tasks' = Leave(t, "store_error")
                /\ media' = media
           ELSE IF skip_sync(tasks[t].old_status, is_watched, tasks[t].force)
           THEN /\ tasks' = Leave(t, "unchanged")
                /\ media' = [media EXCEPT ![i] = row]
           ELSE /\ tasks' = [tasks EXCEPT ![t].pc = "sync"]
                /\ media' = [media EXCEPT ![i] =
                        [row EXCEPT !.watched =
                            IF tasks[t].old_status # is_watched
                            THEN is_watched ELSE row.watched]]
    /\ UNCHANGED << cache, mapping, logs, monitored >>
    /\ UNCHANGED outside_pipeline

\* Faulty variant: the new flag is stored although the commit failed.
store_error_flag_kept(t) ==
    /\ tasks[t].pc = "compare"
    /\ tasks' = Leave(t, "store_error")
    /\ media' = [media EXCEPT ![Item(t)].watched = tasks[t].is_watched]
    /\ UNCHANGED << cache, mapping, logs, monitored >>
    /\ UNCHANGED outside_pipeline

\* The store fails inside the try block of lines 344-378: rollback and return.
store_error(t) ==
    /\ tasks[t].pc = "compare"
    /\ tasks' = Leave(t, "store_error")
    /\ UNCHANGED << cache, media, mapping, logs, monitored >>
    /\ UNCHANGED outside_pipeline

\* Faulty variants: the stored mapping is never used; the resolver is never asked.
no_mapping_always(i) == TRUE
no_mapping_never(i) == FALSE
\* if not mapping (line 498), after the select of lines 492-496
no_mapping(i) == ~mapping[i].exists

\* _sync_with_service: the select of the existing mapping (lines 492-498).
sync_select_mapping(t) ==
    /\ tasks[t].pc = "sync"
    /\ tasks' = [tasks EXCEPT ![t].pc =
                    IF no_mapping(Item(t)) THEN "resolve" ELSE "log"]
    /\ UNCHANGED << cache, media, mapping, logs, monitored >>
    /\ UNCHANGED outside_pipeline

(***************************************************************************)
(* _sync_with_service without a mapping (lines 498-537): the resolver's    *)
(* answer and the episode lookup come from the target service; a found     *)
(* entity is stored as the mapping.  The unique media_item_id makes the    *)
(* commit of a second mapping for the record raise, which the handler of   *)
(* lines 580-586 swallows.                                                 *)
(***************************************************************************)
sync_resolve(t) ==
    /\ tasks[t].pc = "resolve"
    /\ LET i == Item(t) IN
       \E entity \in {None, "found"}, episode \in BOOLEAN :
          IF resolution_missed(entity)
          THEN /\ tasks' = [Leave(t, "resolution_miss") EXCEPT ![t].entity = entity]
               /\ mapping' = mapping
          ELSE IF media_item_id_taken(i)
          THEN /\ tasks' = [Leave(t, "mapping_conflict") EXCEPT ![t].entity = entity]
               /\ mapping' = mapping
          ELSE /\ tasks' = [tasks EXCEPT ![t].pc = "log", ![t].entity = entity]
               /\ mapping' = [mapping EXCEPT ![i] =
                     [exists |-> TRUE,
                      episode_id |-> (media[i].media_type = "episode" /\ episode),
                      is_monitored |-> TRUE, rows |-> mapping[i].rows + 1]]
    /\ UNCHANGED << cache, media, logs, monitored >>
    /\ UNCHANGED outside_pipeline

\* WebhookHandler._update_sync_log
update_sync_log(t) ==
    /\ tasks[t].pc = "log"
    /\ LET i == Item(t)
           original_log_id == OriginalLogId(t)
           should_monitor == should_monitor_of(tasks[t].is_watched)
       IN  IF IsRetry(t) /\ original_log_id # 0 /\ original_log_id \in DOMAIN logs
           THEN /\ logs' = [logs EXCEPT ![original_log_id].status = "processing",
                                        ![original_log_id].error_message = ""]
                /\ tasks' = [tasks EXCEPT ![t].pc = "remote", ![t].log = original_log_id]
           ELSE /\ logs' = Append(logs,
                     [item |-> i, action |-> sync_action(should_monitor),
                      status |-> "processing",
                      service |-> service_name(media[i].media_type),
                      external_id |-> "", error_message |-> ""])
                /\ tasks' = [tasks EXCEPT ![t].pc = "remote", ![t].log = Len(logs) + 1]
    /\ UNCHANGED << cache, media, mapping, monitored >>
    /\ UNCHANGED outside_pipeline

(***************************************************************************)
(* The remote call (lines 546-566).  The client reports success, reports   *)
(* failure, or reports failure although the service applied the update     *)
(* (the reply was lost or empty).                                          *)
(***************************************************************************)
sync_remote_call(t) ==
    /\ tasks[t].pc = "remote"
    /\ LET i == Item(t)
           should_monitor == should_monitor_of(tasks[t].is_watched)
           method == dispatch(media[i].media_type, mapping[i].episode_id)
       IN  IF method = "none"
           THEN /\ tasks' = [tasks EXCEPT ![t].pc = "finish", ![t].success = FALSE]
                /\ monitored' = monitored
           ELSE \E reply \in {"ok", "failed", "lost"} :
                /\ tasks' = [tasks EXCEPT ![t].pc = "finish",
                                          ![t].success = (reply = "ok"),
                                          ![t].called = IF should_monitor THEN "True"
                                                        ELSE "False"]
                /\ monitored' = IF reply = "failed" THEN monitored
                                ELSE [monitored EXCEPT ![i] = should_monitor]
    /\ UNCHANGED << cache, media, mapping, logs >>
    /\ UNCHANGED outside_pipeline

\* Faulty variant: the mapping's flag follows the event only when the call succeeded.
sync_finish_success_only(t) ==
    /\ tasks[t].pc = "finish"
    /\ LET i == Item(t)
           l == tasks[t].log
           success == tasks[t].success
       IN  /\ logs' = [logs EXCEPT
                ![l].status = final_status(success),
                ![l].external_id = i,
                ![l].error_message = final_error_message(success, @)]
           /\ mapping' = [mapping EXCEPT ![i].is_monitored =
                                IF success THEN should_monitor_of(tasks[t].is_watched)
                                ELSE @]
           /\ tasks' = Leave(t, final_status(success))
    /\ UNCHANGED << cache, media, monitored >>
    /\ UNCHANGED outside_pipeline

\* Lines 568-575: the outcome is written to the sync log and the mapping.
sync_finish(t) ==
    /\ tasks[t].pc = "finish"
    /\ LET i == Item(t)
           l == tasks[t].log
           success == tasks[t].success
       IN  /\ logs' = [logs EXCEPT
                ![l].status = final_status(success),
                ![l].external_id = i,
                ![l].error_message = final_error_message(success, @)]
           /\ mapping' = [mapping EXCEPT ![i].is_monitored =
                                should_monitor_of(tasks[t].is_watched)]
           /\ tasks' = Leave(t, final_status(success))
    /\ UNCHANGED << cache, media, monitored >>
    /\ UNCHANGED outside_pipeline

\* The finally clause of process_webhook: the key is popped.
process_webhook_finally(t) ==
    /\ tasks[t].pc = "finally"
    /\ cache' = pop(Key(t))
    /\ tasks' = [tasks EXCEPT ![t] = Returned(tasks[t].outcome)]
    /\ UNCHANGED << media, mapping, logs, monitored >>
    /\ UNCHANGED outside_pipeline

\* The pre-processed payload a retry endpoint builds for a log of media item i.
retry_payload(i, user, l) ==
    [event_type |-> "UserDataSaved", jellyfin_id |-> i, user_id |-> user,
     is_watched |-> media[i].watched, item_type |-> media[i].media_type,
     retry_mode |-> TRUE, original_log_id |-> l]

(***************************************************************************)
(* POST /api/logs/{log_id}/retry.  The 404, 400 and 409 answers change     *)
(* nothing; otherwise the log is marked processing and the pipeline is     *)
(* queued with force_sync=True.                                            *)
(***************************************************************************)
retry_sync_action(l, force) ==
    /\ Free # {}
    /\ l \in DOMAIN logs
    /\ retry_allowed(logs[l].status, force)
    /\ media[logs[l].item].exists
    /\ logs' = [logs EXCEPT ![l].status = "processing", ![l].error_message = ""]
    /\ tasks' = [tasks EXCEPT ![NextFree] =
                    [IdleTask EXCEPT !.pc = "queued", !.force = TRUE,
                                     !.retry_force = force,
                                     !.data = retry_payload(logs[l].item, "retry_user", l)]]
    /\ UNCHANGED << cache, media, mapping, monitored >>
    /\ UNCHANGED outside_pipeline

(***************************************************************************)
(* POST /api/logs/retry/bulk: the first `limit` failed logs are marked     *)
(* processing and one pipeline per log is queued in the request's          *)
(* BackgroundTasks, which runs them in order.  Nothing in the loop that    *)
(* queues them depends on the target service, so no error is collected;    *)
(* the answer is returned before any of the pipelines has started.         *)
(***************************************************************************)
FailedLogs == {l \in DOMAIN logs : logs[l].status = "failed"}
Rank(l) == Cardinality({m \in FailedLogs : m <= l})

retry_failed_syncs(limit) ==
    LET chosen == {l \in FailedLogs : Rank(l) <= limit}
        base == NextFree
        LogAt(j) == CHOOSE l \in chosen : Rank(l) = j
    IN  /\ Free # {}
        /\ chosen # {}
        /\ Cardinality(chosen) <= Cardinality(Free)
        /\ logs' = [l \in DOMAIN logs |->
                      IF l \in chosen
                      THEN [logs[l] EXCEPT !.status = "processing", !.error_message = ""]
                      ELSE logs[l]]
        /\ tasks' = [t \in Tasks |->
                      IF t >= base /\ t - base + 1 <= Cardinality(chosen)
                      THEN [IdleTask EXCEPT
                              !.pc = "queued", !.force = TRUE,
                              !.after = IF t = base THEN 0 ELSE t - 1,
                              !.data = retry_payload(logs[LogAt(t - base + 1)].item,
                                                     "bulk_retry_user",
                                                     LogAt(t - base + 1))]
                      ELSE tasks[t]]
        /\ retry_response' = [status |-> "bulk_retry_started",
                              retried_count |-> Cardinality(chosen),
                              errors |-> << >>]
        /\ UNCHANGED << cache, media, mapping, monitored, last_gate >>
        /\ UNCHANGED << bulk_vars, executor_vars, resolver_vars, endpoint_vars, normalizer >>

Next ==
    \/ \E p \in Payloads : jellyfin_webhook(p)
    \/ \E t \in Tasks : process_webhook_gate(t)
    \/ \E t \in Tasks : get_or_create_media_item(t)
    \/ \E t \in Tasks : status_comparison(t)
    \/ \E t \in Tasks : store_error(t)
    \/ \E t \in Tasks : sync_select_mapping(t)
    \/ \E t \in Tasks : sync_resolve(t)
    \/ \E t \in Tasks : update_sync_log(t)
    \/ \E t \in Tasks : sync_remote_call(t)
    \/ \E t \in Tasks : sync_finish(t)
    \/ \E t \in Tasks : process_webhook_finally(t)
    \/ \E l \in 1..MaxTasks, force \in BOOLEAN : retry_sync_action(l, force)
    \/ \E limit \in 1..MaxTasks : retry_failed_syncs(limit)

Spec == Init /\ [][Next]_vars

(***************************************************************************)
(* Bulk retry on a store that holds failed records: every item has its     *)
(* record, its mapping and one failed sync log, left by earlier runs.      *)
(***************************************************************************)
FailedSync(i, media_type, watched) ==
    [item |-> i, action |-> sync_action(should_monitor_of(watched)),
     status |-> "failed", service |-> service_name(media_type),
     external_id |-> i,
     error_message |-> final_error_message(FALSE, "")]

RetryInit ==
    /\ BulkInit
    /\ EndpointIdle
    /\ normalizer = NotNormalized
    /\ ExecutorIdle
    /\ ResolverIdle
    /\ retry_response = NoResponse
    /\ tasks = [t \in Tasks |-> IdleTask]
    /\ cache = {}
    /\ \E media_type \in [Items -> {"movie", "series"}], watched \in [Items -> BOOLEAN] :
          /\ media = [i \in Items |-> [exists |-> TRUE, watched |-> watched[i],
                                       media_type |-> media_type[i], rows |-> 1]]
          /\ \E order \in [1..Cardinality(Items) -> Items] :
                /\ \A i \in Items : \E k \in DOMAIN order : order[k] = i
                /\ logs = [k \in DOMAIN order |->
                             FailedSync(order[k], media_type[order[k]], watched[order[k]])]
    /\ mapping = [i \in Items |-> [exists |-> TRUE, episode_id |-> FALSE,
                                    is_monitored |-> should_monitor_of(media[i].watched),
                                    rows |-> 1]]
    /\ monitored \in [Items -> BOOLEAN]
    /\ last_gate = [i \in Items |-> [watched |-> "none", with_opposite |-> FALSE]]

NextRetry ==
    \/ \E limit \in 1..MaxTasks : retry_failed_syncs(limit)
    \/ \E t \in Tasks : process_webhook_gate(t)
    \/ \E t \in Tasks : get_or_create_media_item(t)
    \/ \E t \in Tasks : status_comparison(t)
    \/ \E t \in Tasks : store_error(t)
    \/ \E t \in Tasks : sync_select_mapping(t)
    \/ \E t \in Tasks : update_sync_log(t)
    \/ \E t \in Tasks : sync_remote_call(t)
    \/ \E t \in Tasks : sync_finish(t)
    \/ \E t \in Tasks : process_webhook_finally(t)

SpecRetry == RetryInit /\ [][NextRetry]_vars

(***************************************************************************)
(* Retry by id on a store with a history: one item has its record and its  *)
(* mapping; a first event with flag `first` ended failed, and, when        *)
(* `changed`, a second event with the opposite flag was synced after it.   *)
(***************************************************************************)
HistoryInit ==
    /\ BulkInit
    /\ EndpointIdle
    /\ normalizer = NotNormalized
    /\ ExecutorIdle
    /\ ResolverIdle
    /\ retry_response = NoResponse
    /\ tasks = [t \in Tasks |-> IdleTask]
    /\ cache = {}
    /\ last_gate = [i \in Items |-> [watched |-> "none", with_opposite |-> FALSE]]
    /\ \E i \in Items, media_type \in {"movie", "series"}, first \in BOOLEAN,
          changed \in BOOLEAN, first_reply \in {"failed", "lost"},
          second_reply \in {"ok", "failed", "lost"} :
          LET watched == IF changed THEN ~first ELSE first
              after_first == IF first_reply = "lost" THEN should_monitor_of(first)
                             ELSE TRUE
              after_second == IF second_reply = "failed" THEN after_first
                              ELSE should_monitor_of(~first)
              second == [FailedSync(i, media_type, ~first) EXCEPT
                            !.status = final_status(second_reply = "ok"),
                            !.error_message =
                                final_error_message(second_reply = "ok", "")]
          IN  /\ media = [j \in Items |->
                            IF j = i
                            THEN [exists |-> TRUE, watched |-> watched,
                                  media_type |-> media_type, rows |-> 1]
                            ELSE [exists |-> FALSE, watched |-> FALSE,
                                  media_type |-> "", rows |-> 0]]
              /\ mapping = [j \in Items |->
                              IF j = i
                              THEN [exists |-> TRUE, episode_id |-> FALSE,
                                    is_monitored |-> should_monitor_of(watched),
                                    rows |-> 1]
                              ELSE [exists |-> FALSE, episode_id |-> FALSE,
                                    is_monitored |-> TRUE, rows |-> 0]]
              /\ logs = IF changed
                        THEN << FailedSync(i, media_type, first), second >>
                        ELSE << FailedSync(i, media_type, first) >>
              /\ monitored = [j \in Items |->
                                IF j # i THEN TRUE
                                ELSE IF changed THEN after_second ELSE after_first]

NextRetryById ==
    \/ \E l \in 1..MaxTasks, force \in BOOLEAN : retry_sync_action(l, force)
    \/ \E t \in Tasks : process_webhook_gate(t)
    \/ \E t \in Tasks : get_or_create_media_item(t)
    \/ \E t \in Tasks : status_comparison(t)
    \/ \E t \in Tasks : store_error(t)
    \/ \E t \in Tasks : sync_select_mapping(t)
    \/ \E t \in Tasks : update_sync_log(t)
    \/ \E t \in Tasks : sync_remote_call(t)
    \/ \E t \in Tasks : sync_finish(t)
    \/ \E t \in Tasks : process_webhook_finally(t)

SpecRetryById == HistoryInit /\ [][NextRetryById]_vars

\* The same system with the order of passage through the dedup gate observed.
NextGate ==
    \/ \E p \in Payloads : jellyfin_webhook(p)
    \/ \E t \in Tasks : process_webhook_gate_observed(t)
    \/ \E t \in Tasks : get_or_create_media_item(t)
    \/ \E t \in Tasks : status_comparison(t)
    \/ \E t \in Tasks : store_error(t)
    \/ \E t \in Tasks : sync_select_mapping(t)
    \/ \E t \in Tasks : sync_resolve(t)
    \/ \E t \in Tasks : update_sync_log(t)
    \/ \E t \in Tasks : sync_remote_call(t)
    \/ \E t \in Tasks : sync_finish(t)
    \/ \E t \in Tasks : process_webhook_finally(t)
    \/ \E l \in 1..MaxTasks, force \in BOOLEAN : retry_sync_action(l, force)
    \/ \E limit \in 1..MaxTasks : retry_failed_syncs(limit)

SpecGate == Init /\ [][NextGate]_vars

(***************************************************************************)
(* Bulk reconciliation: POST /api/sync/bulk, /api/sync/bulk/movies and     *)
(* /api/sync/bulk/series, and the background task perform_bulk_sync.  The  *)
(* run awaits process_webhook(..., force_sync=True) once per listed item;  *)
(* process_webhook catches every exception (lines 99-100), so the await    *)
(* always returns, and what it does to the records is the pipeline above.  *)
(***************************************************************************)
FreeRuns == {r \in BulkRuns : bulk_runs[r].pc = "idle"}
NextFreeRun == CHOOSE r \in FreeRuns : \A q \in FreeRuns : r <= q

\* if bulk_sync_status["is_running"]
bulk_busy(status) == status.is_running

\* The three endpoints differ in the sync_type they pass on.
bulk_sync_endpoint(sync_type) ==
    /\ FreeRuns # {}
    /\ bulk_runs' = [bulk_runs EXCEPT ![NextFreeRun] =
                        IF bulk_busy(bulk_sync_status)
                        THEN [IdleRun EXCEPT !.pc = "rejected"]
                        ELSE [IdleRun EXCEPT !.pc = "queued", !.sync_type = sync_type]]
    /\ UNCHANGED bulk_sync_status
    /\ UNCHANGED outside_bulk

bulk_sync_jellyfin == bulk_sync_endpoint("all")
bulk_sync_movies == bulk_sync_endpoint("movies")
bulk_sync_series == bulk_sync_endpoint("series")

\* bulk_sync_status.update(...) of a run that starts, fails as a whole, or completes.
started_status(sync_type) ==
    [is_running |-> TRUE, processed_count |-> 0, total_count |-> 0,
     synced_count |-> 0, errors |-> << >>, completed |-> FALSE,
     success |-> FALSE, sync_type |-> sync_type]
\* A failure path that forgets to clear the busy flag.
failed_status_keeps_running(status) ==
    [status EXCEPT !.completed = TRUE, !.success = FALSE, !.errors = << "general" >>]
failed_status(status) ==
    [status EXCEPT !.completed = TRUE, !.success = FALSE, !.is_running = FALSE,
                   !.errors = << "general" >>]
succeeded_status(status) ==
    [status EXCEPT !.completed = TRUE, !.success = TRUE, !.is_running = FALSE]

Ended(runs, r) == [runs EXCEPT ![r].pc = "done", ![r].todo = 0]

(***************************************************************************)
(* The background task starts: the status is initialised with              *)
(* is_running=True; without a Jellyfin client the run ends at once.        *)
(***************************************************************************)
perform_bulk_sync_start(r) ==
    /\ bulk_runs[r].pc = "queued"
    /\ \E jellyfin_client \in BOOLEAN :
          IF jellyfin_client
          THEN /\ bulk_sync_status' = started_status(bulk_runs[r].sync_type)
               /\ bulk_runs' = [bulk_runs EXCEPT ![r].pc = "users"]
          ELSE /\ bulk_sync_status' = failed_status(started_status(bulk_runs[r].sync_type))
               /\ bulk_runs' = Ended(bulk_runs, r)
    /\ UNCHANGED outside_bulk

\* await get_users(): no users, a request error (outer except), or a first user.
bulk_get_users(r) ==
    /\ bulk_runs[r].pc = "users"
    /\ \E users \in {"none", "raises", "some"} :
          IF users = "some"
          THEN /\ bulk_runs' = [bulk_runs EXCEPT ![r].pc = "listing"]
               /\ UNCHANGED bulk_sync_status
          ELSE /\ bulk_sync_status' = failed_status(bulk_sync_status)
               /\ bulk_runs' = Ended(bulk_runs, r)
    /\ UNCHANGED outside_bulk

(***************************************************************************)
(* The for loop from its current position to its next await.  For k items  *)
(* in a row building the webhook data raises (counted, then recorded as an *)
(* item error); the next item is counted and handed to process_webhook, or *)
(* the listing is exhausted and the run completes.                         *)
(***************************************************************************)
bulk_loop(r, status, todo, runs) ==
    \E k \in 0..todo :
        LET counted == [status EXCEPT
                          !.processed_count = @ + k,
                          !.errors = @ \o [j \in 1..k |-> "item"]]
        IN  IF k = todo
            THEN /\ bulk_sync_status' = succeeded_status(counted)
                 /\ bulk_runs' = Ended(runs, r)
            ELSE /\ bulk_sync_status' = [counted EXCEPT !.processed_count = @ + 1]
                 /\ bulk_runs' = [runs EXCEPT ![r].pc = "await",
                                               ![r].todo = todo - k - 1]

\* await get_all_..._for_user(): an empty listing, a request error, or n items.
bulk_get_items(r) ==
    /\ bulk_runs[r].pc = "listing"
    /\ \E n \in 0..MaxListing, raises \in BOOLEAN :
          IF raises \/ n = 0
          THEN /\ bulk_sync_status' = failed_status(bulk_sync_status)
               /\ bulk_runs' = Ended(bulk_runs, r)
          ELSE bulk_loop(r, [bulk_sync_status EXCEPT !.total_count = n], n, bulk_runs)
    /\ UNCHANGED outside_bulk

\* process_webhook has returned, which it does whatever became of the item's
\* sync (its except clause, webhook_handler.py 99-100, ends every failure):
\* the item is counted as synced (lines 735-741).
bulk_item_returns(r) ==
    /\ bulk_runs[r].pc = "await"
    /\ \E sync_failed \in BOOLEAN :
        LET status == [bulk_sync_status EXCEPT !.synced_count = @ + 1]
            runs == [bulk_runs EXCEPT ![r].sync_failures =
                                        IF sync_failed THEN @ + 1 ELSE @]
        IN  IF status.processed_count % 10 = 0
            THEN /\ bulk_sync_status' = status
                 /\ bulk_runs' = [runs EXCEPT ![r].pc = "pause"]
            ELSE bulk_loop(r, status, bulk_runs[r].todo, runs)
    /\ UNCHANGED outside_bulk

\* await asyncio.sleep(1) is over.
bulk_pause_over(r) ==
    /\ bulk_runs[r].pc = "pause"
    /\ bulk_loop(r, bulk_sync_status, bulk_runs[r].todo, bulk_runs)
    /\ UNCHANGED outside_bulk

NextBulk ==
    \/ bulk_sync_jellyfin
    \/ bulk_sync_movies
    \/ bulk_sync_series
    \/ \E r \in BulkRuns : perform_bulk_sync_start(r)
    \/ \E r \in BulkRuns : bulk_get_users(r)
    \/ \E r \in BulkRuns : bulk_get_items(r)
    \/ \E r \in BulkRuns : bulk_item_returns(r)
    \/ \E r \in BulkRuns : bulk_pause_over(r)

SpecBulk == Init /\ [][NextBulk]_vars

(***************************************************************************)
(* The background task under the event loop's scheduling: a task that was  *)
(* added is started once the response is sent (main.py 1253), and each of  *)
(* its awaits returns, since the clients' requests time out after 30 s     *)
(* (jellyfin_client.py 17, sonarr_client.py 17, radarr_client.py 17) and   *)
(* the pause is asyncio.sleep(1).  Nothing obliges a client to post a      *)
(* bulk-sync request, so the endpoints carry no fairness condition.        *)
(***************************************************************************)
BulkFairness ==
    \A r \in BulkRuns :
        /\ WF_vars(perform_bulk_sync_start(r))
        /\ WF_vars(bulk_get_users(r))
        /\ WF_vars(bulk_get_items(r))
        /\ WF_vars(bulk_item_returns(r))
        /\ WF_vars(bulk_pause_over(r))

SpecBulkFair == Init /\ [][NextBulk]_vars /\ BulkFairness

(***************************************************************************)
(* The sync executor against the services' clients: _sync_with_service for *)
(* the events of one media record, with the requests each client method    *)
(* makes.  A request is answered ("ok"), answered with an empty body after *)
(* being applied ("empty"), or raises once the retries are used up.        *)
(***************************************************************************)
Replies == {"ok", "empty", "raises"}
Applied(reply) == reply # "raises"

Outcome(success, requests, episodes, entity, bulk_ids, raised) ==
    [success |-> success, requests |-> requests, episodes |-> episodes,
     entity |-> entity, bulk_ids |-> bulk_ids, raised |-> raised,
     \* the individual updates of a season's fallback, and what each returned
     updates |-> << >>]

\* get the entity, set its monitored flag, PUT it back: series and movie alike.
update_entity_monitoring(kind) ==
    { Outcome(FALSE, << "GET /" \o kind \o "/id" >>, {}, FALSE, {}, TRUE) }
    \cup { Outcome(reply = "ok",
                   << "GET /" \o kind \o "/id", "PUT /" \o kind \o "/id" >>,
                   {}, Applied(reply), {}, reply = "raises") : reply \in Replies }

\* SonarrClient.update_series_monitoring, RadarrClient.update_movie_monitoring
update_series_monitoring == update_entity_monitoring("series")
update_movie_monitoring == update_entity_monitoring("movie")

\* SonarrClient.update_episode_monitoring
update_episode_monitoring(episode_id, ignore) ==
    { Outcome(FALSE, << "GET /episode/id" >>, {}, FALSE, {}, TRUE) }
    \cup IF seasonNumber(episode_id) = 0 /\ ignore
         THEN { Outcome(TRUE, << "GET /episode/id" >>, {}, FALSE, {}, FALSE) }
         ELSE { Outcome(reply = "ok", << "GET /episode/id", "PUT /episode/id" >>,
                        IF Applied(reply) THEN {episode_id} ELSE {}, FALSE, {},
                        reply = "raises")
                : reply \in Replies }

\* The ids of a set of episodes in the order of Sonarr's list.
RECURSIVE InOrder(_)
InOrder(ids) ==
    IF ids = {} THEN << >>
    ELSE LET first == CHOOSE e \in ids : \A f \in ids : e <= f
         IN  << first >> \o InOrder(ids \ {first})

\* The loop of SonarrClient._fallback_season_monitoring: one
\* update_episode_monitoring per episode, the successes counted.
RECURSIVE fallback_updates(_, _)
fallback_updates(ids, ignore) ==
    IF ids = << >>
    THEN { [count |-> 0, requests |-> << >>, episodes |-> {}, updates |-> << >>] }
    ELSE { [count |-> (IF one.success THEN 1 ELSE 0) + rest.count,
            requests |-> one.requests \o rest.requests,
            episodes |-> one.episodes \cup rest.episodes,
            updates |-> << [episode_id |-> Head(ids), success |-> one.success] >>
                        \o rest.updates]
           : one \in update_episode_monitoring(Head(ids), ignore),
             rest \in fallback_updates(Tail(ids), ignore) }

\* The fallback reporting success only when every individual update succeeded.
fallback_season_monitoring_all(season_episodes, ignore, before) ==
    { [Outcome(f.count = Cardinality(season_episodes), before.requests \o f.requests,
               before.episodes \cup f.episodes, FALSE, before.bulk_ids, TRUE)
       EXCEPT !.updates = f.updates]
      : f \in fallback_updates(InOrder(season_episodes), ignore) }

fallback_season_monitoring(season_episodes, ignore, before) ==
    { [Outcome(f.count > 0, before.requests \o f.requests,
               before.episodes \cup f.episodes, FALSE, before.bulk_ids, TRUE)
       EXCEPT !.updates = f.updates]
      : f \in fallback_updates(InOrder(season_episodes), ignore) }

\* SonarrClient.update_season_monitoring
update_season_monitoring(season_number, ignore) ==
    IF season_number = 0 /\ ignore
    THEN { Outcome(TRUE, << >>, {}, FALSE, {}, FALSE) }
    ELSE LET season_episodes == {e \in EpisodeIds : seasonNumber(e) = season_number}
             listed == << "GET /episode" >>
             bulk(reply) == Outcome(reply = "ok", listed \o << "PUT /episode/monitor" >>,
                                    IF Applied(reply) THEN season_episodes ELSE {},
                                    FALSE, season_episodes, reply = "raises")
         IN  { Outcome(FALSE, listed, {}, FALSE, {}, TRUE) }
             \cup IF season_episodes = {}
                  THEN { Outcome(FALSE, listed, {}, FALSE, {}, FALSE) }
                  ELSE { bulk("ok") }
                       \cup fallback_season_monitoring(season_episodes, ignore, bulk("empty"))
                       \cup fallback_season_monitoring(season_episodes, ignore, bulk("raises"))

\* SonarrClient.search_episode on the series' episode list
search_episode(season_number, episode_number) ==
    LET hits == {e \in EpisodeIds : /\ seasonNumber(e) = season_number
                                     /\ episodeNumber(e) = episode_number}
    IN  IF hits = {} THEN NoNumber ELSE CHOOSE e \in hits : \A f \in hits : e <= f

\* The events the executor is started with.
ExecutorEvents ==
    { [media_type |-> "episode", season_number |-> s, episode_number |-> n]
        : s \in Seasons, n \in 1..(MaxEpisode + 1) }
    \cup { [media_type |-> "season", season_number |-> s, episode_number |-> NoNumber]
           : s \in Seasons }
    \cup { [media_type |-> m, season_number |-> NoNumber, episode_number |-> NoNumber]
           : m \in {"series", "movie"} }

ExecutorInit ==
    /\ PipelineInit
    /\ BulkInit
    /\ EndpointIdle
    /\ normalizer = NotNormalized
    /\ ResolverIdle
    /\ \E event \in ExecutorEvents, should_monitor \in BOOLEAN :
          executor = [IdleExecutor EXCEPT
                        !.pc = "select",
                        !.media_type = event.media_type,
                        !.season_number = event.season_number,
                        !.episode_number = event.episode_number,
                        !.should_monitor = should_monitor]
    /\ remote = AllMonitored
    /\ ignore_special_episodes \in BOOLEAN

\* mapping.sonarr_season_number as lines 508-521 leave it
mapped_season(media_type, season_number, episode) ==
    IF media_type = "episode" /\ episode # NoNumber THEN season_number ELSE NoNumber

(***************************************************************************)
(* Lines 492-537: the record's mapping is selected, or the resolver is     *)
(* asked and the mapping is built and stored.  For an episode the episode  *)
(* is looked up in the series' episode list; a lookup that raises ends the *)
(* call in the handler of lines 580-586.                                   *)
(***************************************************************************)
executor_select_mapping ==
    /\ executor.pc = "select"
    /\ IF executor.mapping.exists
       THEN executor' = [executor EXCEPT !.pc = "log"]
       ELSE \E entity \in {None, "found"}, lookup \in {"answers", "raises"} :
              IF resolution_missed(entity)
              THEN executor' = [executor EXCEPT !.pc = "returned"]
              ELSE IF executor.media_type = "episode" /\ lookup = "raises"
              THEN executor' = [executor EXCEPT !.pc = "returned"]
              ELSE LET episode ==
                         IF executor.media_type = "episode"
                         THEN search_episode(executor.season_number,
                                             executor.episode_number)
                         ELSE NoNumber
                   IN  executor' = [executor EXCEPT
                          !.pc = "log",
                          !.mapping = [exists |-> TRUE,
                                       episode_id |-> episode,
                                       season_number |->
                                          mapped_season(executor.media_type,
                                                        executor.season_number, episode),
                                       is_monitored |-> TRUE]]
    /\ UNCHANGED << remote, ignore_special_episodes >>
    /\ UNCHANGED outside_executor

\* Line 544: the audit record of the event, in status processing.
executor_sync_log ==
    /\ executor.pc = "log"
    /\ executor' = [executor EXCEPT !.pc = "remote", !.log = "processing"]
    /\ UNCHANGED << remote, ignore_special_episodes >>
    /\ UNCHANGED outside_executor

\* The outcomes of the client method of lines 546-566.
client_call(method, m, ignore) ==
    IF method = "update_episode_monitoring"
    THEN update_episode_monitoring(m.episode_id, ignore)
    ELSE IF method = "update_season_monitoring"
    THEN update_season_monitoring(m.season_number, ignore)
    ELSE IF method = "update_series_monitoring" THEN update_series_monitoring
    ELSE IF method = "update_movie_monitoring" THEN update_movie_monitoring
    ELSE { Outcome(FALSE, << >>, {}, FALSE, {}, FALSE) }

executor_remote_call ==
    /\ executor.pc = "remote"
    /\ LET method == dispatch(executor.media_type, executor.mapping.episode_id # NoNumber)
           monitor == executor.should_monitor
       IN  \E out \in client_call(method, executor.mapping, ignore_special_episodes) :
             /\ executor' = [executor EXCEPT
                    !.pc = "finish", !.method = method, !.success = out.success,
                    !.requests = out.requests, !.bulk_ids = out.bulk_ids,
                    !.raised = out.raised, !.updates = out.updates]
             /\ remote' =
                    [episodes |-> [e \in EpisodeIds |->
                                      IF e \in out.episodes THEN monitor
                                      ELSE remote.episodes[e]],
                     series |-> IF out.entity /\ method = "update_series_monitoring"
                                THEN monitor ELSE remote.series,
                     movie |-> IF out.entity /\ method = "update_movie_monitoring"
                               THEN monitor ELSE remote.movie]
    /\ UNCHANGED ignore_special_episodes
    /\ UNCHANGED outside_executor

\* Lines 568-575.
executor_finish ==
    /\ executor.pc = "finish"
    /\ executor' = [executor EXCEPT
                       !.pc = "done",
                       !.log = final_status(executor.success),
                       !.mapping.is_monitored = executor.should_monitor]
    /\ UNCHANGED << remote, ignore_special_episodes >>
    /\ UNCHANGED outside_executor

\* The record's next event reaches the executor.
executor_next_event ==
    /\ executor.pc \in {"done", "returned"}
    /\ \E should_monitor \in BOOLEAN :
          executor' = [executor EXCEPT
                          !.pc = "select", !.should_monitor = should_monitor,
                          !.log = "none", !.method = "none", !.success = FALSE,
                          !.requests = << >>, !.bulk_ids = {}, !.raised = FALSE,
                          !.updates = << >>]
    /\ UNCHANGED << remote, ignore_special_episodes >>
    /\ UNCHANGED outside_executor

NextExecutor ==
    \/ executor_select_mapping
    \/ executor_sync_log
    \/ executor_remote_call
    \/ executor_finish
    \/ executor_next_event

SpecExecutor == ExecutorInit /\ [][NextExecutor]_vars

(***************************************************************************)
(* The executor started on a season record whose mapping names the season: *)
(* update_season_monitoring is called with a season of the series.         *)
(***************************************************************************)
SeasonInit ==
    /\ PipelineInit
    /\ bulk_sync_status = InitialStatus
    /\ bulk_runs = [r \in BulkRuns |-> IdleRun]
    /\ webhook_token = NoToken
    /\ configuration = NoToken
    /\ issued = 0
    /\ revoked = {}
    /\ endpoint = NoRequest
    /\ normalizer = NotNormalized
    /\ ResolverIdle
    /\ \E season_number \in Seasons, should_monitor \in BOOLEAN :
          executor = [IdleExecutor EXCEPT
                        !.pc = "select",
                        !.media_type = "season",
                        !.season_number = season_number,
                        !.should_monitor = should_monitor,
                        !.mapping = [exists |-> TRUE, episode_id |-> NoNumber,
                                     season_number |-> season_number,
                                     is_monitored |-> TRUE]]
    /\ remote = AllMonitored
    /\ ignore_special_episodes \in BOOLEAN

SpecSeason == SeasonInit /\ [][NextExecutor]_vars

(***************************************************************************)
(* The clients' resolvers, find_series_by_jellyfin_metadata and            *)
(* find_movie_by_jellyfin_metadata, as functions of the service's list,    *)
(* the arguments and the answer of the service's lookup endpoint.  A title *)
(* is the sequence of its characters.  An entity is                        *)
(* [id, title, originalTitle, alternateTitles, year, dbId, imdbId], dbId   *)
(* being Sonarr's tvdbId or Radarr's tmdbId (an integer, 0 when missing);  *)
(* the arguments carry the ids as strings.                                 *)
(***************************************************************************)
\* str() of the integers in use
Str(n) == IF n = 0 THEN "0" ELSE << "1", "2", "3", "4" >>[n]

\* str.lower()
lower(title) ==
    [k \in DOMAIN title |->
        CASE title[k] = "B" -> "b"
          [] title[k] = "F" -> "f"
          [] title[k] = "T" -> "t"
          [] OTHER -> title[k]]

\* re.sub(r'[^\w\s]', '', ...)
IsPunctuation(c) == c \in {"!", ":", "-", "'", "."}
strip_punctuation(title) == LET Kept(c) == ~IsPunctuation(c) IN SelectSeq(title, Kept)

\* str.split(): the words between runs of whitespace
RECURSIVE split(_)
split(title) ==
    IF title = << >> THEN << >>
    ELSE IF Head(title) = " " THEN split(Tail(title))
    ELSE LET blanks == {k \in DOMAIN title : title[k] = " "}
             stop == IF blanks = {} THEN Len(title) + 1
                     ELSE CHOOSE k \in blanks : \A j \in blanks : k <= j
         IN  << SubSeq(title, 1, stop - 1) >> \o split(SubSeq(title, stop, Len(title)))

\* ' '.join(words)
RECURSIVE join(_)
join(words) ==
    IF words = << >> THEN << >>
    ELSE IF Len(words) = 1 THEN words[1]
    ELSE words[1] \o << " " >> \o join(Tail(words))

\* a in b, for strings
Contains(a, b) == \E k \in 0..(Len(b) - Len(a)) : SubSeq(b, k + 1, k + Len(a)) = a

\* _clean_title dropping the common words before the punctuation.
clean_title_words_first(title) ==
    IF title = << >> THEN << >>
    ELSE LET words == split(lower(title))
             Kept(w) == w \notin {<< "t", "h", "e" >>, << "a" >>, << "a", "n" >>}
             cleaned_words == SelectSeq(words, Kept)
         IN  strip_punctuation(IF cleaned_words # << >> THEN join(cleaned_words)
                               ELSE join(words))

\* SonarrClient._clean_title
clean_title(title) ==
    IF title = << >> THEN << >>
    ELSE LET words == split(strip_punctuation(lower(title)))
             Kept(w) == w \notin {<< "t", "h", "e" >>, << "a" >>, << "a", "n" >>}
             cleaned_words == SelectSeq(words, Kept)
         IN  IF cleaned_words # << >> THEN join(cleaned_words) ELSE join(words)

\* SonarrClient.search_series_by_title
search_series_by_title(series_list, title) ==
    LET title_clean == clean_title(title)
        Exact(s) == title_clean = clean_title(s.title)
        Within(s) == /\ \/ Contains(title_clean, clean_title(s.title))
                        \/ Contains(clean_title(s.title), title_clean)
                     /\ Len(title_clean) > 3
        Alternate(s) == \E k \in DOMAIN s.alternateTitles :
                          LET alt_title_clean == clean_title(s.alternateTitles[k])
                          IN  \/ title_clean = alt_title_clean
                              \/ Contains(title_clean, alt_title_clean) /\ Len(title_clean) > 3
    IN  IF SelectSeq(series_list, Exact) # << >> THEN SelectSeq(series_list, Exact)
        ELSE IF SelectSeq(series_list, Within) # << >> THEN SelectSeq(series_list, Within)
        ELSE SelectSeq(series_list, Alternate)

\* RadarrClient.search_movies_by_title
search_movies_by_title(movies_list, title) ==
    LET title_lower == lower(title)
        Matches(m) ==
            LET all_titles == << lower(m.title), lower(m.originalTitle) >>
                              \o [k \in DOMAIN m.alternateTitles |-> lower(m.alternateTitles[k])]
            IN  \E k \in DOMAIN all_titles :
                    /\ all_titles[k] # << >>
                    /\ \/ Contains(title_lower, all_titles[k])
                       \/ Contains(all_titles[k], title_lower)
    IN  SelectSeq(movies_list, Matches)

\* The first of the positions of a list at which a loop's test passes, 0 if
\* there is none.
First(hits) == IF hits = {} THEN 0 ELSE CHOOSE k \in hits : \A j \in hits : k <= j

SameDbId(entity, id) == entity.dbId # 0 /\ Str(entity.dbId) = id
SameImdbId(entity, id) == entity.imdbId # "" /\ entity.imdbId = id

\* Faulty variant: the ids are not compared.
series_by_ids_skipped(series_list, tvdb_id, imdb_id) == 0
\* Sonarr, lines 357-371: the TVDB loop, then the IMDB loop
series_by_ids(series_list, tvdb_id, imdb_id) ==
    LET by_tvdb == IF Truthy(tvdb_id)
                   THEN First({k \in DOMAIN series_list : SameDbId(series_list[k], tvdb_id)})
                   ELSE 0
        by_imdb == IF Truthy(imdb_id)
                   THEN First({k \in DOMAIN series_list : SameImdbId(series_list[k], imdb_id)})
                   ELSE 0
    IN  IF by_tvdb # 0 THEN by_tvdb ELSE by_imdb

\* Radarr, lines 157-166: one loop testing TMDB then IMDB on each movie
movie_by_ids(movies_list, tmdb_id, imdb_id) ==
    First({k \in DOMAIN movies_list :
              \/ Truthy(tmdb_id) /\ SameDbId(movies_list[k], tmdb_id)
              \/ Truthy(imdb_id) /\ SameImdbId(movies_list[k], imdb_id)})

\* Faulty variant: no entity passes the year filter.
year_matches_none(list, year) == << >>
\* The entities of a list whose year is within one of the given year.
year_matches(list, year) ==
    LET Near(e) == e.year # 0 /\ e.year - year <= 1 /\ year - e.year <= 1
    IN  SelectSeq(list, Near)

\* Priority 2 and the lookup: the same in both clients but for the title search.
by_title_then_lookup(service, list, matches, q, lookup_results) ==
    IF matches # << >>
    THEN LET narrowed == IF q.year # 0 /\ Len(matches) > 1
                              /\ year_matches(matches, q.year) # << >>
                         THEN year_matches(matches, q.year) ELSE matches
         IN  [service |-> service, entity |-> narrowed[1].id,
              title_searched |-> TRUE, looked_up |-> FALSE]
    ELSE LET results == IF q.year # 0 /\ year_matches(lookup_results, q.year) # << >>
                        THEN year_matches(lookup_results, q.year) ELSE lookup_results
             Same(r) == {k \in DOMAIN list : Str(list[k].dbId) = Str(r.dbId)}
             hit == First({k \in DOMAIN results : results[k].dbId # 0 /\ Same(results[k]) # {}})
         IN  [service |-> service,
              entity |-> IF hit = 0 THEN 0
                         ELSE list[First(Same(results[hit]))].id,
              title_searched |-> TRUE, looked_up |-> TRUE]

\* SonarrClient.find_series_by_jellyfin_metadata
find_series_by_jellyfin_metadata(series_list, q, lookup_results) ==
    LET hit == IF Truthy(q.db_id) \/ Truthy(q.imdb_id)
               THEN series_by_ids(series_list, q.db_id, q.imdb_id) ELSE 0
    IN  IF hit # 0
        THEN [service |-> "Sonarr", entity |-> series_list[hit].id,
              title_searched |-> FALSE, looked_up |-> FALSE]
        ELSE by_title_then_lookup("Sonarr", series_list,
                                  search_series_by_title(series_list, q.title),
                                  q, lookup_results)

\* RadarrClient.find_movie_by_jellyfin_metadata
find_movie_by_jellyfin_metadata(movies_list, q, lookup_results) ==
    LET hit == IF Truthy(q.db_id) \/ Truthy(q.imdb_id)
               THEN movie_by_ids(movies_list, q.db_id, q.imdb_id) ELSE 0
    IN  IF hit # 0
        THEN [service |-> "Radarr", entity |-> movies_list[hit].id,
              title_searched |-> FALSE, looked_up |-> FALSE]
        ELSE by_title_then_lookup("Radarr", movies_list,
                                  search_movies_by_title(movies_list, q.title),
                                  q, lookup_results)

\* The longest list a service answers with.
MaxLibrary == 2

Entity(id, title, year, dbId, imdbId, alternateTitles) ==
    [id |-> id, title |-> title, originalTitle |-> title, year |-> year,
     dbId |-> dbId, imdbId |-> imdbId, alternateTitles |-> alternateTitles]

Foo == << "F", "o", "o" >>
TheFooShow == << "T", "h", "e", " ", "F", "o", "o", " ", "s", "h", "o", "w", "!" >>
Bar == << "B", "a", "r" >>

Entities ==
    { Entity(1, Foo, 2000, 1, "tt1", << >>),
      Entity(2, Bar, 2001, 2, "tt2", << Foo >>),
      Entity(3, TheFooShow, 2010, 0, "", << >>),
      Entity(4, Bar, 1990, 3, "tt1", << >>) }

\* The lists of distinct entities of length up to MaxLibrary.
Libraries ==
    UNION { { l \in [1..n -> Entities] : \A j, k \in 1..n : j # k => l[j] # l[k] }
            : n \in 0..MaxLibrary }

Queries ==
    [title : {Foo, lower(Bar), << "f", "o", "o", " ", "s", "h", "o", "w" >>},
     year : {0, 2001, 2005},
     db_id : {None, "1", "2"},
     imdb_id : {None, "tt1", "tt2"}]

\* What the service's lookup endpoint may answer.
Lookups == { << >>, << [dbId |-> 2, year |-> 2001] >>,
             << [dbId |-> 4, year |-> 2000], [dbId |-> 1, year |-> 2000] >> }

ResolverInit ==
    /\ PipelineInit
    /\ BulkInit
    /\ EndpointIdle
    /\ normalizer = NotNormalized
    /\ ExecutorIdle
    /\ library \in Libraries
    /\ query \in Queries
    /\ found = NotCalled
    /\ calls = << >>
    /\ handler = [pc |-> "idle"]

find_series ==
    /\ found = NotCalled
    /\ \E lookup_results \in Lookups :
          found' = find_series_by_jellyfin_metadata(library, query, lookup_results)
    /\ UNCHANGED << library, query, calls, handler >>
    /\ UNCHANGED outside_resolver

find_movie ==
    /\ found = NotCalled
    /\ \E lookup_results \in Lookups :
          found' = find_movie_by_jellyfin_metadata(library, query, lookup_results)
    /\ UNCHANGED << library, query, calls, handler >>
    /\ UNCHANGED outside_resolver

NextResolver ==
    \/ find_series
    \/ find_movie

SpecResolver == ResolverInit /\ [][NextResolver]_vars

(***************************************************************************)
(* _clean_title applied to a title and again to its own result.  The       *)
(* titles are the strings of at most MaxTitle characters over a capital, *)
(* the letters of the common words, the blank and a punctuation mark.      *)
(***************************************************************************)
MaxTitle == 5
Alphabet == {"T", "h", "e", "a", "n", " ", "."}
Titles == UNION { [1..n -> Alphabet] : n \in 0..MaxTitle }

NormalizerInit ==
    /\ PipelineInit
    /\ bulk_sync_status = InitialStatus
    /\ bulk_runs = [r \in BulkRuns |-> IdleRun]
    /\ ExecutorIdle
    /\ ResolverIdle
    /\ webhook_token = NoToken
    /\ configuration = NoToken
    /\ issued = 0
    /\ revoked = {}
    /\ endpoint = NoRequest
    /\ \E title \in Titles : normalizer = [title |-> title, results |-> << >>]

\* _clean_title(title), then _clean_title of what it returned.
normalize ==
    /\ Len(normalizer.results) < 2
    /\ normalizer' = [normalizer EXCEPT !.results =
            Append(@, clean_title(IF @ = << >> THEN normalizer.title ELSE @[Len(@)]))]
    /\ UNCHANGED << pipeline_vars, bulk_vars, executor_vars, resolver_vars, endpoint_vars >>

NextNormalizer == normalize

SpecNormalizer == NormalizerInit /\ [][NextNormalizer]_vars

(***************************************************************************)
(* The handler's resolvers, _find_sonarr_series and _find_radarr_movie,    *)
(* which choose the title, year and ids and call the client's resolver up  *)
(* to three times, with the external metadata service in between.  An item *)
(* is the media item together with the webhook data attached to it         *)
(* (webhook says whether any is attached); a missing title is the empty    *)
(* string, a missing year is 0.  The third id type of the webhook data,    *)
(* which the client's resolver of the service never receives, is left out. *)
(***************************************************************************)
FooShow == << "f", "o", "o", " ", "s", "h", "o", "w" >>

\* The arguments of one call, and the call as an entry of calls.
Arguments(title, year, db_id, imdb_id) ==
    [title |-> title, year |-> year, db_id |-> db_id, imdb_id |-> imdb_id]
Call(kind, q, entity) ==
    << [call |-> kind, title |-> q.title, year |-> q.year, db_id |-> q.db_id,
        imdb_id |-> q.imdb_id, entity |-> entity] >>

\* Lines 617-654 and 728-750: the title, year and ids used for matching.
\* jellyfin_reply is what get_item_by_id answers when the handler asks.
matching_context(service, item, jellyfin_reply) ==
    IF item.webhook
    THEN IF service = "Sonarr" /\ item.media_type = "episode"
         THEN Arguments(IF item.series_name # << >> THEN item.series_name ELSE item.title,
                        item.series_year, item.db_id, item.imdb_id)
         ELSE Arguments(item.title, item.year, item.db_id, item.imdb_id)
    ELSE IF /\ jellyfin_reply.title # << >>
            /\ service = "Sonarr" => item.media_type = "episode" /\ item.parent_id
         THEN Arguments(jellyfin_reply.title, jellyfin_reply.year, None, None)
         ELSE Arguments(item.title, 0, None, None)

find_by_metadata(service, list, q, lookup_results) ==
    IF service = "Sonarr" THEN find_series_by_jellyfin_metadata(list, q, lookup_results)
    ELSE find_movie_by_jellyfin_metadata(list, q, lookup_results)

\* Faulty variant: the last attempt keeps the ids of the external match.
final_fallback_with_ids(external_match) ==
    Arguments(external_match.title, external_match.year,
              external_match.db_id, external_match.imdb_id)
\* Lines 707-712 and 803-808: the arguments of the attempt after the enhanced one
final_fallback(external_match) ==
    Arguments(external_match.title, external_match.year, None, None)

\* The media items and webhook data handed to the handler's resolvers.  Data
\* attached to the item carries the ids and the series fields; without it the
\* handler has the stored item only.
MatchingInputs ==
    { i \in [media_type : {"episode", "series", "movie"},
             title : {Bar, FooShow},
             series_name : {<< >>, FooShow},
             year : {0, 2001},
             series_year : {0, 2010},
             db_id : {None, "1"},
             imdb_id : {None, "tt2"},
             webhook : BOOLEAN,
             parent_id : BOOLEAN,
             use_external_api : BOOLEAN] :
        /\ i.media_type = "episode" => i.title = Bar
        /\ i.media_type # "episode" => i.series_name = << >> /\ i.series_year = 0
        /\ i.media_type # "episode" \/ i.webhook => i.parent_id
        /\ ~i.webhook => i.db_id = None /\ i.imdb_id = None /\ i.series_year = 0 /\ i.year = 0 }

\* What Jellyfin answers for the series of an episode (or for the movie), an
\* empty title standing for no answer.
JellyfinReplies == { [title |-> << >>, year |-> 0], [title |-> FooShow, year |-> 2010] }

\* What the external metadata service answers: nothing, or its best match.
NoMatch == [hit |-> FALSE, title |-> << >>, year |-> 0, db_id |-> None, imdb_id |-> None]
ExternalMatches ==
    { NoMatch,
      [hit |-> TRUE, title |-> Foo, year |-> 2000, db_id |-> None, imdb_id |-> "tt1"],
      [hit |-> TRUE, title |-> << "b", "a", "z" >>, year |-> 0,
       db_id |-> "4", imdb_id |-> "tt4"] }

\* What the lookup endpoint answers to one call of the client's resolver.
HandlerLookups == { << >>, << [dbId |-> 2, year |-> 2001] >> }

HandlerInit ==
    /\ PipelineInit
    /\ BulkInit
    /\ EndpointIdle
    /\ normalizer = NotNormalized
    /\ ExecutorIdle
    /\ library \in {l \in Libraries : \A k \in DOMAIN l : l[k].id # 4}
    /\ query \in MatchingInputs
    /\ found = NotCalled
    /\ calls = << >>
    /\ handler = [pc |-> "start", own |-> Arguments(<< >>, 0, None, None),
                  external_match |-> NoMatch]

Service == IF query.media_type = "movie" THEN "Radarr" ELSE "Sonarr"

\* Lines 672-673 and 768-769: where the function goes when tier 1 is skipped
\* or has found nothing.
after_direct == IF query.use_external_api THEN "external" ELSE "title_only"

\* Lines 617-657 and 728-753: the metadata is chosen.
find_context ==
    /\ handler.pc = "start"
    /\ \E jellyfin_reply \in JellyfinReplies :
          LET own == matching_context(Service, query, jellyfin_reply)
          IN  handler' = [pc |-> IF Truthy(own.db_id) \/ Truthy(own.imdb_id)
                                 THEN "direct" ELSE after_direct,
                          own |-> own, external_match |-> NoMatch]
    /\ UNCHANGED << library, query, found, calls >>
    /\ UNCHANGED outside_resolver

\* One call of the client's resolver with the arguments q: it is recorded, and
\* an entity, or at the last attempt any answer, is returned.
handler_search(q, last, next) ==
    \E lookup_results \in HandlerLookups :
        LET result == find_by_metadata(Service, library, q, lookup_results)
        IN  /\ calls' = calls \o Call("find", q, result.entity)
            /\ IF result.entity # 0 \/ last
               THEN found' = result /\ handler' = [handler EXCEPT !.pc = "done"]
               ELSE found' = found /\ handler' = [handler EXCEPT !.pc = next]
            /\ UNCHANGED << library, query >>
            /\ UNCHANGED outside_resolver

\* Lines 656-670 and 752-766
direct_search ==
    /\ handler.pc = "direct"
    /\ handler_search(handler.own, FALSE, after_direct)

\* Lines 673-689, 713-714 and 769-785, 809-810
external_enhancement ==
    /\ handler.pc = "external"
    /\ \E external_match \in ExternalMatches :
          /\ calls' = calls \o Call("external",
                                     Arguments(handler.own.title, handler.own.year,
                                               None, handler.own.imdb_id),
                                     IF external_match.hit THEN 1 ELSE 0)
          /\ handler' = [handler EXCEPT !.external_match = external_match,
                            !.pc = IF external_match.hit THEN "enhanced" ELSE "title_only"]
    /\ UNCHANGED << library, query, found >>
    /\ UNCHANGED outside_resolver

\* Lines 691-703 and 787-799
enhanced_search ==
    /\ handler.pc = "enhanced"
    /\ handler_search(Arguments(handler.external_match.title, handler.external_match.year,
                                handler.external_match.db_id, handler.external_match.imdb_id),
                      FALSE, "final")

\* Lines 705-712 and 801-808
final_fallback_search ==
    /\ handler.pc = "final"
    /\ handler_search(final_fallback(handler.external_match), TRUE, "done")

\* Lines 716-723 and 812-819
title_only_search ==
    /\ handler.pc = "title_only"
    /\ handler_search(Arguments(handler.own.title, handler.own.year, None, None),
                      TRUE, "done")

NextHandler ==
    \/ find_context
    \/ direct_search
    \/ external_enhancement
    \/ enhanced_search
    \/ final_fallback_search
    \/ title_only_search

SpecHandler == HandlerInit /\ [][NextHandler]_vars

(***************************************************************************)
(* POST /webhook/jellyfin as a request arrives (main.py 301-364), the      *)
(* token it is checked against (app_config.py, persistent_config.py), the  *)
(* rotation of that token and a restart of the service.  A token is a      *)
(* number: secrets.token_hex(16) yields one never produced before.  The    *)
(* Authorization header carries Bearer <authorization>, or is missing      *)
(* (NoToken).                                                              *)
(***************************************************************************)
MaxToken == 3
Tokens == 1..MaxToken

\* A body: whether its bytes decode as UTF-8, whether the text is JSON, the
\* value it parses to, and its length (0: no bytes at all).
Body(utf8, json, payload, length) ==
    [utf8 |-> utf8, json |-> json, payload |-> payload, length |-> length]

Bodies ==
    { Body(TRUE, FALSE, EmptyDict, 0),
      Body(FALSE, FALSE, EmptyDict, 1),
      Body(TRUE, FALSE, EmptyDict, 1),
      Body(TRUE, TRUE, SendAll("i1", TRUE, "TogglePlayed"), 1),
      Body(TRUE, TRUE, [Type |-> "", ItemId |-> "", UserId |-> ""], 1) }

ContentTypes == {"application/json", "text/plain"}

Answer(status_code, status, parsed) ==
    [status_code |-> status_code, status |-> status, parsed |-> parsed]

\* Lines 328-343.  `import json` (line 334) makes json a local name of the
\* whole function, bound only once the import has run; a parse error that
\* is raised before that makes the except clause of line 339 raise
\* UnboundLocalError, which the handler of line 360 turns into 500.
parse_failure(content_type, body) ==
    LET json_bound == content_type # "application/json" /\ body.utf8
    IN  IF json_bound THEN Answer(422, "Invalid JSON payload", FALSE)
        ELSE Answer(500, "Internal server error", FALSE)

\* The answer of the endpoint; the route declares no status code, so a
\* returned dict is sent with 200.
answer_of(authorization, content_type, body) ==
    IF webhook_token # NoToken
       /\ (authorization = NoToken \/ authorization # webhook_token)
    THEN Answer(401, "Invalid webhook token", FALSE)
    ELSE IF body.length = 0
    THEN Answer(200, "accepted", FALSE)
    ELSE IF ~(body.utf8 /\ body.json)
    THEN parse_failure(content_type, body)
    ELSE Answer(200, "accepted", TRUE)

webhook_request(authorization, content_type, body) ==
    LET answer == answer_of(authorization, content_type, body)
    IN  /\ answer.parsed => Free # {}
        /\ tasks' = IF answer.parsed THEN received(body.payload) ELSE tasks
        /\ endpoint' = [authorization |-> authorization, content_type |-> content_type,
                        body |-> body, status_code |-> answer.status_code,
                        status |-> answer.status,
                        queued |-> answer.parsed /\ ~AllEmptyStrings(body.payload)]
        /\ UNCHANGED << webhook_token, configuration, issued, revoked >>
        /\ UNCHANGED << cache, media, mapping, logs, monitored, last_gate, retry_response >>
        /\ UNCHANGED << bulk_vars, executor_vars, resolver_vars, normalizer >>

\* POST /api/config/webhook-token/regenerate.  set_config_value returns False
\* when the store fails; the new token is returned and used all the same.
regenerate_webhook_token ==
    /\ issued < MaxToken
    /\ \E saved \in BOOLEAN :
        LET new_token == issued + 1
        IN  /\ configuration' = IF saved THEN new_token ELSE configuration
            /\ webhook_token' = new_token
            /\ issued' = new_token
    /\ revoked' = revoked \cup {webhook_token}
    /\ endpoint' = NoRequest
    /\ UNCHANGED << pipeline_vars, bulk_vars, executor_vars, resolver_vars, normalizer >>

\* The service is restarted: what the process held in memory is gone, and
\* AppConfig.initialize loads the token (get_or_create_webhook_token; the
\* environment names no token).
restart ==
    /\ \E read \in BOOLEAN, saved \in BOOLEAN :
        LET token == IF read THEN configuration ELSE NoToken
        IN  IF token # NoToken
            THEN /\ webhook_token' = token
                 /\ UNCHANGED << configuration, issued >>
            ELSE /\ issued < MaxToken
                 /\ webhook_token' = issued + 1
                 /\ issued' = issued + 1
                 /\ configuration' = IF saved THEN issued + 1 ELSE configuration
    /\ tasks' = [t \in Tasks |-> IdleTask]
    /\ cache' = {}
    /\ bulk_sync_status' = InitialStatus
    /\ bulk_runs' = [r \in BulkRuns |-> IdleRun]
    /\ endpoint' = NoRequest
    /\ UNCHANGED << media, mapping, logs, monitored, last_gate, retry_response, revoked >>
    /\ UNCHANGED << executor_vars, resolver_vars, normalizer >>

\* The service after its first start: a token generated, and saved or not.
EndpointInit ==
    /\ PipelineInit
    /\ bulk_sync_status = InitialStatus
    /\ bulk_runs = [r \in BulkRuns |-> IdleRun]
    /\ ExecutorIdle
    /\ ResolverIdle
    /\ webhook_token = 1
    /\ configuration \in {NoToken, 1}
    /\ issued = 1
    /\ revoked = {}
    /\ endpoint = NoRequest
    /\ normalizer = NotNormalized

NextEndpoint ==
    \/ \E authorization \in {NoToken} \cup Tokens, content_type \in ContentTypes,
          body \in Bodies :
            webhook_request(authorization, content_type, body)
    \/ regenerate_webhook_token
    \/ restart

SpecEndpoint == EndpointInit /\ [][NextEndpoint]_vars

(***************************************************************************)
(* Properties.                                                             *)
(***************************************************************************)
\* A pipeline between the insertion of its dedup key and its return.
InFlight == {"sleep", "compare", "sync", "resolve", "log", "remote", "finish", "finally"}
\* The slot of t is the one the step acts on.
Stepped(t) == tasks'[t] # tasks[t]
NoEffect == UNCHANGED << cache, media, mapping, logs, monitored >>
Requests == {t \in Tasks : tasks[t].pc # "idle"}
\* The watched flag of the event in slot t: the delivery's own, or the one fetched.
EventWatched(t) ==
    IF Has(tasks[t].data, "is_watched") THEN tasks[t].data["is_watched"]
    ELSE tasks[t].is_watched
\* The finally clause only pops the key and returns.
ReturnOnly(t) ==
    (tasks[t].pc = "finally" /\ Stepped(t)) =>
        /\ tasks'[t].pc = "done"
        /\ tasks'[t].outcome = tasks[t].outcome
        /\ UNCHANGED << media, mapping, logs, monitored >>

C2_unchanged_status_skipped ==
    [][\A t \in Tasks :
        /\ ( /\ tasks[t].pc = "compare" /\ Stepped(t)
              /\ ~tasks[t].force
              /\ tasks[t].old_status = tasks[t].is_watched )
           => /\ tasks'[t].pc = "finally"
              /\ media'[Item(t)].watched = media[Item(t)].watched
              /\ UNCHANGED << mapping, logs, monitored >>
        /\ ReturnOnly(t)]_vars

\* C2 witness: an unforced run has been skipped at the comparison.
C2_witness ==
    \E t \in Tasks :
        /\ tasks[t].pc = "finally" /\ tasks[t].outcome = "unchanged"
        /\ ~tasks[t].force
        /\ tasks[t].old_status = tasks[t].is_watched
        /\ media[Item(t)].exists

\* C3 (as stated): every forced run that got its media record loaded and
\* committed has issued a remote monitoring update by the time it reaches
\* its finally clause.
C3_forced_run_calls_remote ==
    \A t \in Tasks :
        ( /\ tasks[t].pc = "finally"
          /\ tasks[t].force
          /\ tasks[t].outcome \notin {"store_error", "no_item_data"} )
        => tasks[t].called # "none"

\* C3 (amended): equality of the stored and the new watched flag never
\* skips a forced run: unless the store fails, the run leaves the comparison
\* for the sync step; with a mapping present it goes on to the sync log and
\* the remote step, and there a monitoring update is issued exactly when a
\* client method applies to the record (an episode whose mapping has no
\* episode id gets none).
C3_force_bypasses_comparison ==
    [][\A t \in Tasks :
        (tasks[t].force /\ Stepped(t)) =>
            /\ tasks[t].pc = "compare"
                => \/ tasks'[t].pc = "sync"
                   \/ tasks'[t].pc = "finally" /\ tasks'[t].outcome = "store_error"
            /\ (tasks[t].pc = "sync" /\ mapping[Item(t)].exists)
                => tasks'[t].pc = "log"
            /\ tasks[t].pc = "log" => tasks'[t].pc = "remote"
            /\ tasks[t].pc = "remote"
                => /\ tasks'[t].pc = "finish"
                   /\ tasks'[t].called # "none"
                       <=> dispatch(media[Item(t)].media_type,
                                    mapping[Item(t)].episode_id) # "none"]_vars

\* C3 witness: a forced run whose flag equalled the stored one has issued
\* the remote update.
C3_witness ==
    \E t \in Tasks :
        /\ tasks[t].pc = "finish" /\ tasks[t].force
        /\ tasks[t].old_status = tasks[t].is_watched
        /\ tasks[t].called # "none"

\* C4: a remote monitoring update issued for an event carries
\* monitored = NOT watched of the event, and the audit record the event's
\* run created has action unmonitor when watched is true, monitor when false.
C4_monitored_is_not_watched ==
    \A t \in Tasks :
        /\ tasks[t].called # "none"
            => tasks[t].called = (IF EventWatched(t) THEN "False" ELSE "True")
        /\ (tasks[t].log # 0 /\ ~IsRetry(t))
            => logs[tasks[t].log].action =
                   (IF EventWatched(t) THEN "unmonitor" ELSE "monitor")

\* C4 witness: a watched event has created its audit record and issued the update.
C4_witness ==
    \E t \in Tasks :
        /\ tasks[t].called = "False" /\ EventWatched(t)
        /\ tasks[t].log # 0 /\ ~IsRetry(t)
        /\ logs[tasks[t].log].action = "unmonitor"

\* C5: when the remote monitoring call of a run has failed, the step that
\* records the outcome leaves the run's audit record failed with a non-empty
\* error message, and the run goes on to its finally clause and returns.
C5_remote_failure_recorded ==
    [][\A t \in Tasks :
        /\ ( /\ tasks[t].pc = "finish" /\ Stepped(t)
              /\ tasks[t].called # "none" /\ ~tasks[t].success )
           => /\ logs'[tasks[t].log].status = "failed"
              /\ logs'[tasks[t].log].error_message # ""
              /\ tasks'[t].pc = "finally"
        /\ (tasks[t].pc = "finally" /\ Stepped(t)) => tasks'[t].pc = "done"]_vars

\* C5 witness: a run whose remote call failed has recorded the failure.
C5_witness ==
    \E t \in Tasks :
        /\ tasks[t].pc = "finally" /\ tasks[t].outcome = "failed"
        /\ tasks[t].called # "none" /\ ~tasks[t].success
        /\ logs[tasks[t].log].status = "failed"
        /\ logs[tasks[t].log].error_message # ""

\* C6: an audit record in status processing belongs to a pipeline run that
\* has not ended yet: the run that created it, or a queued or running retry
\* of it.
C6_processing_has_a_run ==
    \A l \in DOMAIN logs :
        logs[l].status = "processing"
        => \E t \in Tasks :
              /\ tasks[t].pc \notin {"idle", "done"}
              /\ \/ tasks[t].log = l
                 \/ IsRetry(t) /\ OriginalLogId(t) = l

\* The step queues a retry of audit record l (a single or a bulk retry request).
RetryRequested(l) ==
    \E t \in Tasks :
        /\ tasks[t].pc = "idle" /\ tasks'[t].pc = "queued"
        /\ Has(tasks'[t].data, "original_log_id")
        /\ tasks'[t].data["original_log_id"] = l
\* The same, by a single retry request made with force=true.
ForcedRetryRequested(l) ==
    \E t \in Tasks :
        /\ tasks[t].pc = "idle" /\ tasks'[t].pc = "queued"
        /\ Has(tasks'[t].data, "original_log_id")
        /\ tasks'[t].data["original_log_id"] = l
        /\ tasks'[t].retry_force

C8_resolution_miss_is_a_skip ==
    [][\A t \in Tasks :
        /\ (tasks[t].pc = "resolve" /\ Stepped(t) /\ tasks'[t].entity = None)
           => /\ tasks'[t].pc = "finally"
              /\ tasks'[t].called = "none"
              /\ UNCHANGED << mapping, logs, monitored >>
        /\ ReturnOnly(t)]_vars

\* C8 witness: a run has ended on a resolution miss, with no mapping stored.
C8_witness ==
    \E t \in Tasks :
        /\ tasks[t].pc = "finally" /\ tasks[t].entity = None
        /\ tasks[t].outcome = "resolution_miss"
        /\ ~mapping[Item(t)].exists
        /\ logs = << >>

\* C9: every key in the dedup cache is the key of a run that is in flight
\* (between the insertion of its key and its return).
C9_cache_keys_in_flight ==
    \A k \in cache :
        \E t \in Tasks : tasks[t].pc \in InFlight /\ Key(t) = k

\* C9 witness: runs that had inserted their keys have returned, one after a
\* failed sync and one after a skip, and the cache is empty.
C9_witness ==
    \E t, u \in Tasks :
        /\ tasks[t].pc = "done" /\ tasks[t].outcome = "failed"
        /\ tasks[u].pc = "done" /\ tasks[u].outcome = "unchanged"
        /\ cache = {}

\* The shapes of payload C10 names, read off the payload's own fields.
SendAllShape(p) == Has(p, "NotificationType") \/ Has(p, "Event")
Probe(p) == SendAllShape(p) /\ Get(p, "NotificationType") # "UserDataSaved"
UnrecognizedCause(p) ==
    SendAllShape(p) /\ Get(p, "SaveReason") \notin {"TogglePlayed", "PlaybackFinished"}
OtherEvent(p) ==
    /\ ~SendAllShape(p)
    /\ Get(p, "Type") # "UserDataSaved"
    /\ ~Has(p, "template") /\ ~Has(p, "events")
MissingIds(p) ==
    /\ ~Has(p, "template")
    /\ \/ ~Truthy(Get(p, "ItemId")) /\ ~Truthy(Get(p, "Id"))
       \/ ~Truthy(Get(p, "UserId")) /\ ~Truthy(Get(p, "user_id"))
Irrelevant(p) ==
    /\ ~is_processed_webhook_data(p)
    /\ Probe(p) \/ UnrecognizedCause(p) \/ OtherEvent(p) \/ MissingIds(p)

\* C10: the endpoint never queues an all-empty payload and its own step
\* changes nothing but the request's slot; a queued probe, heartbeat or
\* other unrecognized cause code, other event, or payload without item id
\* or user id returns at once: no dedup key is inserted, no media record,
\* mapping or audit record changes and nothing is called.
C10_rejected_payload_no_effect ==
    [][\A t \in Tasks :
        /\ (tasks[t].pc = "idle" /\ tasks'[t].pc = "queued")
           => ~AllEmptyStrings(tasks'[t].data)
        /\ (tasks[t].pc = "idle" /\ tasks'[t].pc = "done") => NoEffect
        /\ ( /\ tasks[t].pc = "queued" /\ Stepped(t)
              /\ Irrelevant(tasks[t].data) )
           => /\ tasks'[t].pc = "done"
              /\ NoEffect]_vars

\* C10 witness: one payload was dropped by the endpoint as an all-empty
\* template and another was rejected by the normalizer.
C10_witness ==
    \E t, u \in Tasks :
        /\ tasks[t].pc = "done" /\ tasks[t].outcome = "ignored"
        /\ tasks[u].pc = "done" /\ tasks[u].outcome = "rejected"
        /\ cache = {} /\ logs = << >>

(***************************************************************************)
(* C11: once a mapping exists for a media record, a sync that starts       *)
(* afterwards goes straight to the audit record without asking the         *)
(* resolver, and no step removes the mapping or changes its remote ids;    *)
(* only is_monitored is rewritten.                                         *)
(***************************************************************************)
C11_mapping_reused_unchanged ==
    [][ /\ \A i \in Items :
            mapping[i].exists =>
                /\ mapping'[i].exists
                /\ mapping'[i].episode_id = mapping[i].episode_id
        /\ \A t \in Tasks :
            (tasks[t].pc = "sync" /\ Stepped(t) /\ mapping[Item(t)].exists) =>
                /\ tasks'[t].pc = "log"
                /\ tasks'[t].entity = "unset" ]_vars

\* A sync that used the stored mapping is about to flip its is_monitored.
C11_witness ==
    \E t \in Tasks :
        /\ tasks[t].pc = "finish"
        /\ tasks[t].entity = "unset"
        /\ mapping[Item(t)].exists
        /\ mapping[Item(t)].is_monitored # should_monitor_of(tasks[t].is_watched)

\* No pipeline other than t's is between its dedup gate and its return.
OthersEnded(t) == \A u \in Tasks \ {t} : tasks[u].pc \notin InFlight

(***************************************************************************)
(* C12 as stated: while a record has no mapping because an earlier         *)
(* resolution missed, every later event for the record asks the resolver   *)
(* again.  A record stored watched with no mapping and no other pipeline   *)
(* in flight is one whose last committed event ended by a resolution miss; *)
(* the event compared next must go on to the sync step (a store failure    *)
(* aside).                                                                 *)
(***************************************************************************)
C12_every_event_resolves_again ==
    [][ \A t \in Tasks :
          ( /\ tasks[t].pc = "compare"
            /\ Stepped(t)
            /\ OthersEnded(t)
            /\ media[Item(t)].exists
            /\ media[Item(t)].watched
            /\ ~mapping[Item(t)].exists )
          => \/ tasks'[t].pc = "sync"
             \/ tasks'[t].outcome = "store_error" ]_vars

(***************************************************************************)
(* C12 amended: an event whose flag differs from the loaded one, or a      *)
(* forced one, goes on to the sync step (a store failure aside); a sync    *)
(* step that finds no mapping always asks the resolver, whose answer the   *)
(* run then holds.                                                         *)
(***************************************************************************)
C12_sync_without_mapping_resolves ==
    [][ \A t \in Tasks :
          /\ ( /\ tasks[t].pc = "compare"
               /\ Stepped(t)
               /\ (tasks[t].old_status # tasks[t].is_watched \/ tasks[t].force) )
             => \/ tasks'[t].pc = "sync"
                \/ tasks'[t].outcome = "store_error"
          /\ (tasks[t].pc = "sync" /\ Stepped(t) /\ ~mapping[Item(t)].exists)
             => tasks'[t].pc = "resolve"
          /\ (tasks[t].pc = "resolve" /\ Stepped(t))
             => tasks'[t].entity \in {None, "found"} ]_vars

\* After one run's resolution miss, a later run for the only record found the entity.
C12_witness ==
    \E t, u \in Tasks :
        /\ tasks[u].pc = "done"
        /\ tasks[u].outcome = "resolution_miss"
        /\ tasks[t].pc = "log"
        /\ tasks[t].entity = "found"
        /\ Cardinality({i \in Items : media[i].exists}) = 1

(***************************************************************************)
(* C13: of two runs for one record that are in flight together while the   *)
(* record has no mapping, only the first asks the resolver; the second     *)
(* uses the mapping the first stored, and both finish their sync.  So no   *)
(* run holds a resolver answer of its own while the mapping of its record  *)
(* was stored by another run, and no run is abandoned for that reason.     *)
(***************************************************************************)
C13_second_run_uses_first_mapping ==
    \A t \in Tasks :
        /\ tasks[t].outcome # "mapping_conflict"
        /\ \A u \in Tasks \ {t} :
              ~ ( /\ tasks[t].pc = "resolve"
                  /\ tasks[u].pc \in {"log", "remote", "finish"}
                  /\ tasks[u].entity = "found"
                  /\ Item(u) = Item(t) )

\* A bulk-sync request that was accepted and whose run has not finished.
ActiveRuns == {r \in BulkRuns : bulk_runs[r].pc \notin {"idle", "rejected", "done"}}

(***************************************************************************)
(* C14: at most one bulk reconciliation run is accepted and unfinished at  *)
(* any time, whatever the order of the requests and of the start of the    *)
(* background task.                                                        *)
(***************************************************************************)
C14_one_bulk_run == Cardinality(ActiveRuns) <= 1

\* Every pipeline has ended, and none by a failure or a resolution miss.
AllEndedWell ==
    \A t \in Tasks :
        /\ tasks[t].pc \in {"idle", "done"}
        /\ tasks[t].outcome \in {"", "completed", "unchanged"}

(***************************************************************************)
(* C15: when the last event of an item to pass the dedup gate did so while *)
(* an event of the same item with the opposite watched flag was in flight, *)
(* then once all pipelines have ended (none by a failure) the stored       *)
(* watched flag is that last event's flag and the remote monitored state   *)
(* is its negation.                                                        *)
(***************************************************************************)
C15_last_through_gate_wins ==
    \A i \in Items :
        (AllEndedWell /\ last_gate[i].with_opposite) =>
            /\ media[i].watched = (last_gate[i].watched = "True")
            /\ monitored[i] = (last_gate[i].watched # "True")

(***************************************************************************)
(* C16: a run that adds the media record compares against watched=false   *)
(* whatever the event says.  Unless its insert fails, a first event with   *)
(* watched=true goes on to the sync step with the record stored watched,   *)
(* and an unforced first event with watched=false ends there, leaving the  *)
(* record unwatched and nothing else changed.                              *)
(***************************************************************************)
C16_first_event_compared_with_false ==
    [][ \A t \in Tasks :
          ( /\ tasks[t].pc = "compare"
            /\ Stepped(t)
            /\ tasks[t].created
            /\ tasks'[t].outcome # "store_error" )
          => /\ tasks[t].old_status = FALSE
             /\ media'[Item(t)].exists
             /\ tasks[t].is_watched =>
                    /\ tasks'[t].pc = "sync"
                    /\ media'[Item(t)].watched
             /\ (~tasks[t].is_watched /\ ~tasks[t].force) =>
                    /\ tasks'[t].pc = "finally"
                    /\ tasks'[t].outcome = "unchanged"
                    /\ ~media'[Item(t)].watched
                    /\ UNCHANGED << mapping, logs, monitored >> ]_vars

\* One first event with watched=true is at the sync step, another first event
\* with watched=false has been skipped.
C16_witness ==
    /\ \E t \in Tasks :
          tasks[t].pc = "sync" /\ tasks[t].created /\ tasks[t].is_watched
    /\ \E u \in Tasks :
          /\ tasks[u].pc = "finally"
          /\ tasks[u].created
          /\ ~tasks[u].is_watched
          /\ tasks[u].outcome = "unchanged"

\* How often a request occurs among those a call has made.
Times(request, requests) == Cardinality({k \in DOMAIN requests : requests[k] = request})

(***************************************************************************)
(* C17: once the client method has been called without a request raising,  *)
(* an episode with a resolved episode id has had a per-episode update, a   *)
(* series a whole-series update, a movie a movie update, and a season with *)
(* season number n (specials being ignored aside) exactly one bulk update  *)
(* whose ids are the episodes of season n.                                 *)
(***************************************************************************)
C17_call_by_item_type ==
    (executor.pc \in {"finish", "done"} /\ ~executor.raised) =>
        /\ (executor.media_type = "episode" /\ executor.mapping.episode_id # NoNumber)
              => executor.method = "update_episode_monitoring"
        /\ executor.media_type = "series"
              => Times("PUT /series/id", executor.requests) = 1
        /\ executor.media_type = "movie"
              => Times("PUT /movie/id", executor.requests) = 1
        /\ ( /\ executor.media_type = "season"
             /\ ~(executor.season_number = 0 /\ ignore_special_episodes) )
              => /\ Times("PUT /episode/monitor", executor.requests) = 1
                 /\ executor.bulk_ids =
                      {e \in EpisodeIds : seasonNumber(e) = executor.season_number}

(***************************************************************************)
(* C18: with ignore_special_episodes set, the sync of a season item whose  *)
(* season number is 0 ends with the audit record completed and without a   *)
(* request to the service.                                                 *)
(***************************************************************************)
C18_specials_season_completed_without_call ==
    ( /\ executor.pc = "done"
      /\ executor.media_type = "season"
      /\ executor.season_number = 0
      /\ ignore_special_episodes )
    => /\ executor.log = "completed"
       /\ executor.requests = << >>

\* The entities of the library an id of the query matches, of either type, and
\* those the query's title matches under the title search of the called service.
Listed == {library[k] : k \in DOMAIN library}
MatchedByDbId == {e \in Listed : Truthy(query.db_id) /\ SameDbId(e, query.db_id)}
MatchedByImdbId == {e \in Listed : Truthy(query.imdb_id) /\ SameImdbId(e, query.imdb_id)}
MatchedByTitle ==
    LET matches == IF found.service = "Sonarr"
                   THEN search_series_by_title(library, query.title)
                   ELSE search_movies_by_title(library, query.title)
    IN  {matches[k] : k \in DOMAIN matches}

\* C19: when the supplied ids match one entity X of the list and the title
\* matches another entity Y, the resolver of either service answers X and has
\* made no title search.
C19_id_match_beats_title ==
    found.service # "none" =>
        \A x \in Listed :
            /\ MatchedByDbId \cup MatchedByImdbId = {x}
            /\ MatchedByTitle \ {x} # {}
            => found.entity = x.id /\ ~found.title_searched

\* A Sonarr call answered the id match although the title of the query matches
\* an entity that stands earlier in the list.
C19_witness ==
    /\ found.service = "Sonarr"
    /\ Len(library) = 2
    /\ MatchedByDbId \cup MatchedByImdbId = {library[2]}
    /\ library[1] \in MatchedByTitle
    /\ found.entity = library[2].id
    /\ ~found.title_searched

\* C20: when both id types are supplied and match different entities, the
\* answer is the entity matching the TVDB id (series) or the TMDB id (movies),
\* whatever the order of the list.
C20_db_id_before_imdb_id ==
    found.service # "none" =>
        \A x \in Listed :
            /\ MatchedByDbId = {x}
            /\ MatchedByImdbId \ {x} # {}
            => found.entity = x.id

\* C21: the external metadata service is asked only after a search with the
\* event's own title and ids has found nothing; an event without ids whose
\* title matches a listed entity is resolved without asking it.
C21_external_after_own_search ==
    \A k \in DOMAIN calls :
        calls[k].call = "external" =>
            \E j \in 1..(k - 1) : /\ calls[j].call = "find"
                                   /\ calls[j].title = handler.own.title
                                   /\ calls[j].entity = 0

\* C22: for an episode, no search is made with the episode's own title.
C22_episode_searched_by_series ==
    query.media_type = "episode" =>
        \A k \in DOMAIN calls : calls[k].call = "find" => calls[k].title # query.title

\* C30: when the external service gave a match and the search with the
\* enhanced title and ids found nothing, exactly one more search is made, with
\* the enhanced title and no ids, and its answer is the function's answer.
C30_one_title_only_retry ==
    \A k \in DOMAIN calls :
        /\ calls[k].call = "external" /\ calls[k].entity = 1
        /\ k + 1 \in DOMAIN calls /\ calls[k + 1].entity = 0
        /\ handler.pc = "done"
        => /\ Len(calls) = k + 2
           /\ calls[k + 2] = [call |-> "find", title |-> handler.external_match.title,
                               year |-> handler.external_match.year,
                               db_id |-> None, imdb_id |-> None,
                               entity |-> found.entity]

\* The search with the match's ids found nothing, and the search by its title
\* alone then returned an entity.
C30_witness ==
    /\ handler.pc = "done"
    /\ Len(calls) >= 3
    /\ calls[Len(calls) - 2].call = "external"
    /\ Truthy(calls[Len(calls) - 1].imdb_id) /\ calls[Len(calls) - 1].entity = 0
    /\ calls[Len(calls)].imdb_id = None
    /\ found.entity # 0 /\ found.entity = calls[Len(calls)].entity

\* The prior record a run names: the original_log_id of retry data, when a
\* record of that id exists; 0 otherwise.
NamedLog(t) ==
    LET d == tasks[t].data
    IN  IF /\ Has(d, "retry_mode") /\ Has(d, "original_log_id")
           /\ d["retry_mode"] /\ d["original_log_id"] \in DOMAIN logs
        THEN d["original_log_id"] ELSE 0

\* C23: a retry run that names an existing audit record creates no record:
\* its log step resets the named record to processing, and its last step
\* writes the run's final status to that record.
C23_retry_reuses_record ==
    [][\A t \in Tasks :
        NamedLog(t) # 0 /\ tasks'[t] # tasks[t] /\ tasks[t].pc \in {"log", "remote", "finish"}
        => /\ Len(logs') = Len(logs)
           /\ tasks[t].pc = "log" =>
                 /\ logs'[NamedLog(t)].status = "processing"
                 /\ tasks'[t].log = NamedLog(t)
           /\ tasks[t].pc = "finish" =>
                 /\ logs'[NamedLog(t)].status \in {"completed", "failed"}
                 /\ logs'[NamedLog(t)].status = tasks'[t].outcome]_vars

\* A retry run has written completed to the one record there is, which had
\* failed before.
C23_witness ==
    /\ Len(logs) = 1
    /\ logs[1].status = "completed"
    /\ \E t \in Tasks : NamedLog(t) = 1 /\ tasks[t].pc = "finally"
                          /\ tasks[t].outcome = "completed" /\ ~tasks[t].retry_force

\* C24: when the remote call fails for a record re-dispatched by a bulk
\* retry, the answer of the bulk retry lists that record's error.
C24_bulk_retry_lists_failure ==
    \A t \in Tasks :
        /\ NamedLog(t) # 0
        /\ tasks[t].data["user_id"] = "bulk_retry_user"
        /\ tasks[t].pc = "finally" /\ tasks[t].outcome = "failed"
        => \E k \in DOMAIN retry_response.errors :
              retry_response.errors[k].log_id = NamedLog(t)

\* C25: an item of a bulk run whose sync failed is recorded as a per-item
\* error in the run's status.
C25_item_failure_recorded ==
    \A r \in BulkRuns :
        bulk_runs[r].sync_failures > 0 /\ bulk_runs[r].pc = "done"
        => \E k \in DOMAIN bulk_sync_status.errors : bulk_sync_status.errors[k] = "item"

\* C26: the webhook endpoint answers 401 when the bearer token is missing or
\* wrong, 422 when the body cannot be parsed whatever the declared content
\* type, 200 for a benign no-op payload and 202 when the event is queued.
C26_response_codes ==
    endpoint.status_code # 0 =>
        endpoint.status_code =
            IF endpoint.authorization # webhook_token THEN 401
            ELSE IF endpoint.body.length = 0 THEN 200
            ELSE IF ~(endpoint.body.utf8 /\ endpoint.body.json) THEN 422
            ELSE IF AllEmptyStrings(endpoint.body.payload) THEN 200
            ELSE 202

\* C27: a webhook request bearing a token that a rotation has replaced is
\* answered 401 and queues nothing, also after a restart.
C27_rotated_token_rejected ==
    endpoint.status_code # 0 /\ endpoint.authorization \in revoked
    => endpoint.status_code = 401 /\ ~endpoint.queued

\* C28: title normalization is idempotent: normalizing an already normalized
\* title returns it unchanged.
C28_clean_title_idempotent ==
    Len(normalizer.results) = 2 => normalizer.results[2] = normalizer.results[1]

\* A title that lost a common word and a punctuation mark has been normalized twice.
C28_witness ==
    /\ Len(normalizer.results) = 2
    /\ normalizer.title = << "a", " ", "h", "." >>
    /\ normalizer.results[1] = << "h" >>

\* The season call has returned after its bulk request failed.
BulkCallFailed ==
    /\ executor.pc \in {"finish", "done"}
    /\ executor.method = "update_season_monitoring"
    /\ executor.bulk_ids # {}
    /\ executor.raised

\* C29: when the bulk season call fails, exactly one individual update is
\* attempted for each episode of the season, and the season update reports
\* success if and only if at least one of them succeeded.
C29_fallback_per_episode ==
    BulkCallFailed =>
        /\ \A e \in executor.bulk_ids :
              Cardinality({k \in DOMAIN executor.updates :
                              executor.updates[k].episode_id = e}) = 1
        /\ Len(executor.updates) = Cardinality(executor.bulk_ids)
        /\ executor.success <=>
              \E k \in DOMAIN executor.updates : executor.updates[k].success

\* The fallback has updated one episode of the season and failed on the other.
C29_witness ==
    /\ BulkCallFailed
    /\ executor.success
    /\ \E k \in DOMAIN executor.updates : ~executor.updates[k].success
    /\ executor.bulk_ids = {e \in EpisodeIds : seasonNumber(e) = executor.mapping.season_number}

\* The candidates of the title search of the called service, in list order, and
\* the positions of those whose year is within one of the query's.
TitleCandidates ==
    IF found.service = "Sonarr" THEN search_series_by_title(library, query.title)
    ELSE search_movies_by_title(library, query.title)
NearCandidates ==
    {k \in DOMAIN TitleCandidates :
        /\ TitleCandidates[k].year # 0
        /\ TitleCandidates[k].year - query.year \in {-1, 0, 1}}
\* The call was answered from the title search.
AnsweredByTitle == found.title_searched /\ ~found.looked_up

\* C31 as stated: with more than one candidate and a year, the answer is the
\* first candidate among those whose year is within one of the supplied year;
\* otherwise it is the first candidate.
C31_first_within_a_year ==
    AnsweredByTitle =>
        IF query.year # 0 /\ Len(TitleCandidates) > 1
        THEN /\ NearCandidates # {}
             /\ found.entity = TitleCandidates[First(NearCandidates)].id
        ELSE found.entity = TitleCandidates[1].id

\* C31, amended: with more than one candidate, a year and at least one
\* candidate whose year is within one of it, the answer is the first of those;
\* in every other case it is the first candidate in list order.
C31_first_within_a_year_if_any ==
    AnsweredByTitle =>
        IF query.year # 0 /\ Len(TitleCandidates) > 1 /\ NearCandidates # {}
        THEN found.entity = TitleCandidates[First(NearCandidates)].id
        ELSE found.entity = TitleCandidates[1].id

\* The year picked the second of two candidates.
C31_witness ==
    /\ AnsweredByTitle
    /\ query.year # 0
    /\ Len(TitleCandidates) = 2
    /\ NearCandidates = {2}
    /\ found.entity = TitleCandidates[2].id

\* The entity's normalized title, or one of its normalized alternate titles, is
\* the normalized title of the query.
EqualsQuery(e) ==
    \/ clean_title(e.title) = clean_title(query.title)
    \/ \E k \in DOMAIN e.alternateTitles :
          clean_title(e.alternateTitles[k]) = clean_title(query.title)

\* C32: for a query whose normalized title has at most three characters, the
\* title search of either service returns only entities whose normalized title
\* or alternate title equals the normalized query.
C32_short_title_exact_only ==
    found.title_searched /\ Len(clean_title(query.title)) <= 3 =>
        \A k \in DOMAIN TitleCandidates : EqualsQuery(TitleCandidates[k])

\* The same for the calls of Sonarr's resolver alone.
C32_short_title_exact_only_sonarr ==
    found.service = "Sonarr" => C32_short_title_exact_only

\* C33: when the store fails while the new watched flag is saved, the step
\* leaves the media records, the mappings, the audit records and the services
\* as they were and touches no other event; the event has made no remote call
\* and has no audit record, and all it still does is return.
C33_store_failure_rolls_back ==
    [][\A t \in Tasks :
        /\ tasks[t].pc = "compare" /\ tasks'[t].outcome = "store_error"
           => /\ media' = media /\ mapping' = mapping
              /\ logs' = logs /\ monitored' = monitored
              /\ tasks'[t].pc = "finally"
              /\ tasks'[t].log = 0 /\ tasks'[t].called = "none"
              /\ \A u \in Tasks \ {t} : tasks'[u] = tasks[u]
        /\ tasks[t].pc = "finally" /\ tasks[t].outcome = "store_error"
           /\ tasks'[t] # tasks[t]
           => /\ tasks'[t].pc = "done"
              /\ media' = media /\ logs' = logs /\ monitored' = monitored]_vars

\* The store failed for an event that would have changed the stored flag,
\* while another event is past its own comparison.
C33_witness ==
    \E t \in Tasks, u \in Tasks :
        /\ t # u
        /\ tasks[t].pc = "finally" /\ tasks[t].outcome = "store_error"
        /\ media[Item(t)].exists /\ ~tasks[t].created
        /\ media[Item(t)].watched # tasks[t].is_watched
        /\ tasks[u].pc \in {"sync", "resolve", "log", "remote", "finish"}

C35_one_record_one_mapping ==
    \A i \in Items : media[i].rows <= 1 /\ mapping[i].rows <= 1

\* Two first events for one item ran side by side: both sessions added a
\* record, one was stored and the other was rolled back.
C35_witness ==
    \E t \in Tasks, u \in Tasks :
        /\ t # u
        /\ tasks[t].pc = "finally" /\ tasks[t].created /\ tasks[t].outcome = "store_error"
        /\ tasks[u].pc \notin {"idle", "queued", "sleep", "compare", "done"}
        /\ tasks[u].created
        /\ Item(u) = Item(t)
        /\ media[Item(t)].rows = 1

\* An audit record of item i for the change to watched flag w has ended failed.
FailedChange(i, w) ==
    \E l \in DOMAIN logs :
        /\ logs[l].item = i /\ logs[l].status = "failed"
        /\ logs[l].action = (IF w THEN "unmonitor" ELSE "monitor")

\* C36: an unforced event that starts its sync has stored its watched flag
\* first, and a failing sync leaves the stored flag alone; so an event that
\* reads the stored flag after a failed sync and carries that same flag makes
\* no remote call and no audit record unless it is forced.
C36_failed_change_needs_forced_run ==
    [][\A t \in Tasks :
        /\ tasks[t].pc = "compare" /\ tasks'[t].pc = "sync" /\ ~tasks[t].force
           => media'[Item(t)].exists /\ media'[Item(t)].watched = tasks[t].is_watched
        /\ tasks[t].pc = "finish" /\ tasks'[t].outcome = "failed"
           => media' = media
        /\ tasks[t].pc = "compare" /\ tasks'[t] # tasks[t]
           /\ ~tasks[t].created /\ tasks[t].old_status = tasks[t].is_watched
           /\ FailedChange(Item(t), tasks[t].is_watched)
           => IF tasks[t].force
              THEN tasks'[t].pc = "sync" \/ tasks'[t].outcome = "store_error"
              ELSE /\ tasks'[t].pc = "finally"
                   /\ tasks'[t].outcome \in {"unchanged", "store_error"}
                   /\ tasks'[t].called = "none" /\ tasks'[t].log = 0
                   /\ logs' = logs /\ monitored' = monitored]_vars

\* A watched event's remote call failed; the same event came again unforced
\* and was skipped, while the service still monitors the item.
C36_witness ==
    \E t \in Tasks :
        /\ tasks[t].pc = "finally" /\ tasks[t].outcome = "unchanged"
        /\ ~tasks[t].force /\ tasks[t].is_watched /\ ~tasks[t].created
        /\ FailedChange(Item(t), TRUE)
        /\ Len(logs) = 1
        /\ media[Item(t)].watched
        /\ monitored[Item(t)]

\* The mapping of episode i is stored without an episode id.
WithoutEpisodeId(i) ==
    /\ mapping[i].exists
    /\ media[i].media_type = "episode"
    /\ ~mapping[i].episode_id

\* C37: a mapping of an episode stored without episode id stays without it,
\* and every sync of that episode makes no remote update and ends with its
\* audit record failed.
C37_mapping_without_episode_stays ==
    [][\A i \in Items :
        WithoutEpisodeId(i)
        => /\ mapping'[i].exists /\ ~mapping'[i].episode_id
           /\ monitored'[i] = monitored[i]
           /\ \A t \in Tasks :
                 tasks[t].pc = "finish" /\ Item(t) = i /\ tasks'[t] # tasks[t]
                 => /\ tasks[t].called = "none"
                    /\ tasks'[t].outcome = "failed"
                    /\ logs'[tasks[t].log].status = "failed"]_vars

\* Two syncs of an episode whose mapping has no episode id have ended failed
\* without a remote call.
C37_witness ==
    \E t \in Tasks :
        /\ tasks[t].pc = "finally" /\ tasks[t].outcome = "failed"
        /\ tasks[t].called = "none"
        /\ WithoutEpisodeId(Item(t))
        /\ Len(logs) = 2
        /\ \A l \in DOMAIN logs : logs[l].item = Item(t) /\ logs[l].status = "failed"

\* C38: the action of an audit record in status completed is the one of the
\* last remote call made under that record, also when a retry by id reused
\* the record after the media record's watched flag had changed.
C38_completed_action_is_last_call ==
    \A t \in Tasks :
        /\ tasks[t].pc = "finally" /\ tasks[t].outcome = "completed"
        /\ logs[tasks[t].log].status = "completed"
        => logs[tasks[t].log].action =
              (IF tasks[t].called = "True" THEN "monitor" ELSE "unmonitor")

(***************************************************************************)
(* C39: every bulk reconciliation run that was accepted eventually ends    *)
(* with the shared status showing is_running=false and completed=true,     *)
(* whichever path it takes (no client, no users, a failed or empty         *)
(* listing, items that fail, a completed loop); hence a status that shows  *)
(* a run in progress eventually shows none.                                *)
(***************************************************************************)
C39_bulk_run_ends ==
    /\ \A r \in BulkRuns :
          (r \in ActiveRuns)
             ~> ( /\ bulk_runs[r].pc = "done"
                  /\ ~ bulk_sync_status.is_running
                  /\ bulk_sync_status.completed )
    /\ bulk_sync_status.is_running ~> ~ bulk_sync_status.is_running

\* A run has ended after an item of its listing failed to sync, another has
\* ended as well, and the status record shows a completed run and none running.
C39_witness ==
    /\ \A r \in BulkRuns : bulk_runs[r].pc = "done"
    /\ \E r \in BulkRuns : bulk_runs[r].sync_failures > 0
    /\ ~ bulk_sync_status.is_running
    /\ bulk_sync_status.completed

(***************************************************************************)
(* C40: in every state of the shared bulk-sync status record,              *)
(* synced_count <= processed_count <= total_count, and is_running and      *)
(* completed are never both true.                                          *)
(***************************************************************************)
C40_status_counts_ordered ==
    /\ bulk_sync_status.synced_count <= bulk_sync_status.processed_count
    /\ bulk_sync_status.processed_count <= bulk_sync_status.total_count
    /\ ~ (bulk_sync_status.is_running /\ bulk_sync_status.completed)

\* The part of C40 about the two flags alone.
C40_running_excludes_completed ==
    ~ (bulk_sync_status.is_running /\ bulk_sync_status.completed)

====
